---- MODULE Spec2Model ----
(***************************************************************************)
(* A model of the ksymtypes corpus (src/src/sym/mod.rs): the symtypes      *)
(* reader with its worker pool (load_multiple / load_single), the variant  *)
(* interner (merge_type), the expansion of F# records                      *)
(* (extrapolate_file_record), the consolidated writer                      *)
(* (consolidate_type / write_consolidated) and the comparator with its     *)
(* worker pool (compare_with / compare_types / record_type_change).        *)
(*                                                                         *)
(* Text is modelled at the level of characters: a word, a path and a line  *)
(* are sequences of one-character strings, a file is a sequence of lines.  *)
(* Indices (variant indices, file indices, work indices) are 0-based as in *)
(* the program; a program index k selects element k + 1 of a sequence.     *)
(***************************************************************************)
EXTENDS Integers, Sequences, FiniteSets, TLC

\* The driver performs at most MaxLoads loads on one corpus object.
MaxLoads == 2

\* A load runs with 1 .. MaxWorkers worker threads.
MaxWorkers == 2

\* Bound on the number of tokens of a type given to pretty_format_type.
MaxTokens == 5

\* Bound on the number of fields of a struct given to get_type_diff.
MaxFields == 3

\* Bound on the number of merge_type calls made on one Types map.
MaxMerges == 3

(***************************************************************************)
(* Maps (HashMap) are functions; keys are words or integers.               *)
(***************************************************************************)
EmptyMap == [x \in {} |-> 0]

MapInsert(m, k, v) == [x \in (DOMAIN m) \cup {k} |-> IF x = k THEN v ELSE m[x]]

(***************************************************************************)
(* Characters and their byte values (the ASCII codes of the characters the *)
(* model's inputs are written with).                                       *)
(***************************************************************************)
CharCode ==
    ("\t" :> 9) @@ (" " :> 32) @@ ("#" :> 35) @@ ("." :> 46) @@ ("/" :> 47) @@
    ("0" :> 48) @@ ("1" :> 49) @@ ("2" :> 50) @@ ("3" :> 51) @@ ("4" :> 52) @@
    ("5" :> 53) @@ ("6" :> 54) @@ ("7" :> 55) @@ ("8" :> 56) @@ ("9" :> 57) @@
    ("@" :> 64) @@ ("A" :> 65) @@ ("B" :> 66) @@ ("F" :> 70) @@
    ("a" :> 97) @@ ("b" :> 98) @@ ("c" :> 99) @@ ("d" :> 100) @@
    ("e" :> 101) @@ ("f" :> 102) @@ ("g" :> 103) @@ ("h" :> 104) @@
    ("m" :> 109) @@ ("o" :> 111) @@ ("q" :> 113) @@ ("s" :> 115) @@
    ("u" :> 117) @@ ("w" :> 119) @@ ("x" :> 120) @@ ("y" :> 121) @@ ("z" :> 122)

\* str::cmp / [u8]::cmp: bytewise lexicographic order.
RECURSIVE StrLess(_, _)
StrLess(a, b) ==
    IF b = <<>> THEN FALSE
    ELSE IF a = <<>> THEN TRUE
    ELSE IF a[1] = b[1] THEN StrLess(Tail(a), Tail(b))
    ELSE CharCode[a[1]] < CharCode[b[1]]

\* Path::components for a relative path made of normal components.
RECURSIVE SplitOn(_, _, _, _)
SplitOn(chars, seps, cur, acc) ==
    IF chars = <<>> THEN (IF cur = <<>> THEN acc ELSE Append(acc, cur))
    ELSE IF chars[1] \in seps
         THEN SplitOn(Tail(chars), seps, <<>>,
                      IF cur = <<>> THEN acc ELSE Append(acc, cur))
         ELSE SplitOn(Tail(chars), seps, Append(cur, chars[1]), acc)

PathComponents(p) == SplitOn(p, {"/"}, <<>>, <<>>)

\* PathBuf::cmp compares the paths component by component.
RECURSIVE CompsLess(_, _)
CompsLess(a, b) ==
    IF b = <<>> THEN FALSE
    ELSE IF a = <<>> THEN TRUE
    ELSE IF a[1] = b[1] THEN CompsLess(Tail(a), Tail(b))
    ELSE StrLess(a[1], b[1])

\* The order of the bytes of the two path texts (a mutant).
PathLess_text(p, q) == StrLess(p, q)

PathLess(p, q) == CompsLess(PathComponents(p), PathComponents(q))

\* str::split_ascii_whitespace.
AsciiWhitespace == {" ", "\t"}

split_ascii_whitespace(line) == SplitOn(line, AsciiWhitespace, <<>>, <<>>)

\* line.starts_with("F#")
starts_with_F(line) == Len(line) >= 2 /\ line[1] = "F" /\ line[2] = "#"

\* word.chars().nth(1) == Some('#')
IsTypeRefWord(word) == Len(word) >= 2 /\ word[2] = "#"

MkToken(word) ==
    IF IsTypeRefWord(word) THEN [kind |-> "TypeRef", str |-> word]
    ELSE [kind |-> "Atom", str |-> word]

Tokenize(words) == [k \in 1..Len(words) |-> MkToken(words[k])]

is_export(name) == Len(name) < 2 \/ name[2] # "#"

\* name.rfind('@'): the 1-based position of the last '@', 0 when there is none.
rfind_at(name) ==
    IF \E k \in 1..Len(name) : name[k] = "@"
    THEN CHOOSE k \in 1..Len(name) :
            name[k] = "@" /\ \A j \in (k+1)..Len(name) : name[j] # "@"
    ELSE 0

\* Splits `<name>@<variant>` at the last '@'.
SplitVariant(word) ==
    LET p == rfind_at(word) IN
    IF p = 0 THEN [name |-> word, orig |-> <<>>]
    ELSE [name |-> SubSeq(word, 1, p - 1), orig |-> SubSeq(word, p + 1, Len(word))]

are_tokens_eq(a, b) ==
    /\ Len(a) = Len(b)
    /\ \A k \in 1..Len(a) : a[k] = b[k]

\* merge_type with the scan for an existing variant left out (a mutant).
merge_type_append(types, name, tokens) ==
    IF name \in DOMAIN types
    THEN [types |-> MapInsert(types, name, Append(types[name], tokens)),
          idx |-> Len(types[name])]
    ELSE [types |-> MapInsert(types, name, <<tokens>>), idx |-> 0]

\* merge_type: the body runs under the types mutex, so it is one step.
merge_type(types, name, tokens) ==
    IF name \in DOMAIN types
    THEN LET variants == types[name]
             found == {k \in 1..Len(variants) : are_tokens_eq(tokens, variants[k])}
         IN IF found # {}
            THEN [types |-> types,
                  idx |-> (CHOOSE k \in found : \A j \in found : k <= j) - 1]
            ELSE [types |-> MapInsert(types, name, Append(variants, tokens)),
                  idx |-> Len(variants)]
    ELSE [types |-> MapInsert(types, name, <<tokens>>), idx |-> 0]

(***************************************************************************)
(* extrapolate_file_record.  The result carries the updated records, `err` *)
(* (some call of the walk returned the "implicitly referenced but has      *)
(* multiple variants" error; every caller drops that Result) and `panic`   *)
(* (types.get(name).unwrap() on a name without declaration).               *)
(***************************************************************************)
RECURSIVE extrapolate_file_record(_, _, _, _, _)
RECURSIVE ExtrapolateTokens(_, _, _, _)

ExtrapolateTokens(tokens, k, types, st) ==
    IF k > Len(tokens) \/ st.panic THEN st
    ELSE IF tokens[k].kind = "TypeRef"
         THEN ExtrapolateTokens(tokens, k + 1, types,
                  extrapolate_file_record(tokens[k].str, 0, FALSE, types, st))
         ELSE ExtrapolateTokens(tokens, k + 1, types, st)

extrapolate_file_record(name, variant_idx, is_explicit, types, st) ==
    IF ~is_explicit /\ name \in DOMAIN st.records THEN st
    ELSE LET st1 == IF is_explicit THEN st
                    ELSE [st EXCEPT !.records = MapInsert(@, name, variant_idx)]
         IN IF name \notin DOMAIN types THEN [st1 EXCEPT !.panic = TRUE]
            ELSE IF ~is_explicit /\ Len(types[name]) > 1
                 THEN [st1 EXCEPT !.err = TRUE]
                 ELSE ExtrapolateTokens(types[name][variant_idx + 1], 1, types, st1)

(***************************************************************************)
(* The consolidated writer.                                                *)
(***************************************************************************)

\* usize::MAX, the "only one variant in the output" mark of write_consolidated.
\* The model's integers are 32 bits wide; the mark is their largest value, as
\* usize::MAX is the largest index of the program.
usize_MAX == 2147483647

DigitChars == <<"0", "1", "2", "3", "4", "5", "6", "7", "8", "9">>

\* The decimal form of an index, as `{}` formats a usize.
RECURSIVE Digits(_)
Digits(n) ==
    IF n < 10 THEN <<DigitChars[n + 1]>>
    ELSE Digits(n \div 10) \o <<DigitChars[(n % 10) + 1]>>

\* exports.sort(): ascending order of the names' bytes.
RECURSIVE SortNames(_)
SortNames(S) ==
    IF S = {} THEN <<>>
    ELSE LET m == CHOOSE x \in S : \A y \in S : x = y \/ StrLess(x, y)
         IN <<m>> \o SortNames(S \ {m})

\* The key (is_export(name), name); false orders before true.
ExportNameLess(a, b) ==
    \/ ~is_export(a) /\ is_export(b)
    \/ is_export(a) = is_export(b) /\ StrLess(a, b)

\* sort_by_key(|(name, _)| (is_export(name), name)) and the sort of the
\* (is_export, name, remap_idx) triples; the names are the keys of a map.
RECURSIVE SortByExportName(_)
SortByExportName(S) ==
    IF S = {} THEN <<>>
    ELSE LET m == CHOOSE x \in S : \A y \in S : x = y \/ ExportNameLess(x, y)
         IN <<m>> \o SortByExportName(S \ {m})

\* file_indices.sort_by_key(|&i| &self.files[i].path): a stable sort of the
\* 0-based file indices, so files of equal path keep their order in Files.
RECURSIVE SortFileIndices(_, _)
SortFileIndices(files, S) ==
    IF S = {} THEN <<>>
    ELSE LET m == CHOOSE i \in S : \A j \in S :
                     \/ i = j
                     \/ PathLess(files[i + 1].path, files[j + 1].path)
                     \/ /\ ~PathLess(files[j + 1].path, files[i + 1].path)
                        /\ i < j
         IN <<m>> \o SortFileIndices(files, S \ {m})

(***************************************************************************)
(* consolidate_type.  st = [ot, pt, ok, vis]: output_types, processed_types,*)
(* whether the walk is still running (FALSE after one of its panics) and   *)
(* the names the walk has gone past the processed_types test for (in       *)
(* order; a record kept for the properties).                               *)
(***************************************************************************)
RECURSIVE consolidate_type(_, _, _, _)
RECURSIVE ConsolidateTokens(_, _, _, _, _)

ConsolidateTokens(types, symfile, tokens, k, st) ==
    IF k > Len(tokens) \/ ~st.ok THEN st
    ELSE IF tokens[k].kind = "TypeRef"
         THEN ConsolidateTokens(types, symfile, tokens, k + 1,
                  consolidate_type(types, symfile, tokens[k].str, st))
         ELSE ConsolidateTokens(types, symfile, tokens, k + 1, st)

consolidate_type(types, symfile, name, st) ==
    IF ~st.ok \/ name \in DOMAIN st.pt THEN st
    ELSE IF name \notin DOMAIN symfile.records
         THEN \* "Type {} is not known in file {}"
              [st EXCEPT !.ok = FALSE, !.vis = Append(@, name)]
    ELSE LET variant_idx == symfile.records[name]
             remap_idx ==
                 IF name \in DOMAIN st.ot
                 THEN IF variant_idx \in DOMAIN st.ot[name]
                      THEN st.ot[name][variant_idx]
                      ELSE Cardinality(DOMAIN st.ot[name])
                 ELSE 0
             remap == IF name \in DOMAIN st.ot THEN st.ot[name] ELSE EmptyMap
             st1 == [ot |-> MapInsert(st.ot, name,
                                      MapInsert(remap, variant_idx, remap_idx)),
                     pt |-> MapInsert(st.pt, name, remap_idx),
                     ok |-> TRUE,
                     vis |-> Append(st.vis, name)]
         IN IF name \notin DOMAIN types
            THEN [st1 EXCEPT !.ok = FALSE]  \* "Type {} has a missing declaration"
            ELSE ConsolidateTokens(types, symfile, types[name][variant_idx + 1],
                                   1, st1)

\* The loop over the sorted exports of one file.
RECURSIVE ConsolidateExports(_, _, _, _, _)
ConsolidateExports(types, symfile, exports, k, st) ==
    IF k > Len(exports) THEN st
    ELSE ConsolidateExports(types, symfile, exports, k + 1,
             consolidate_type(types, symfile, exports[k], st))

\* The loop over the sorted files.  acc = [ot, ft, fv, ok]; ft maps a 0-based
\* file index to the processed_types of that file and fv to the names visited
\* by the walks of that file.
RECURSIVE ConsolidateFiles(_, _, _, _)
ConsolidateFiles(corp, file_indices, k, acc) ==
    IF k > Len(file_indices) \/ ~acc.ok THEN acc
    ELSE LET i == file_indices[k]
             symfile == corp.files[i + 1]
             exports == SortNames({n \in DOMAIN symfile.records : is_export(n)})
             st == ConsolidateExports(corp.types, symfile, exports, 1,
                       [ot |-> acc.ot, pt |-> EmptyMap, ok |-> TRUE,
                        vis |-> <<>>])
         IN ConsolidateFiles(corp, file_indices, k + 1,
                [ot |-> st.ot, ft |-> MapInsert(acc.ft, i, st.pt),
                 fv |-> MapInsert(acc.fv, i, st.vis), ok |-> st.ok])

\* Concatenation of a sequence of sequences.
RECURSIVE Flatten(_)
Flatten(ss) == IF ss = <<>> THEN <<>> ELSE Head(ss) \o Flatten(Tail(ss))

\* " {}" for every token of a declaration.
TokensText(tokens) == Flatten([k \in 1..Len(tokens) |-> <<" ">> \o tokens[k].str])

\* TypeLines with the internal variant index written after the '@' in place of
\* the output index (a mutant).
TypeLines_variant_idx(types, name, remap) ==
    LET n == Cardinality(DOMAIN remap)
        variant_of(r) == CHOOSE v \in DOMAIN remap : remap[v] = r
    IN [r \in 1..n |->
           (IF n > 1 THEN name \o <<"@">> \o Digits(variant_of(r - 1)) ELSE name)
           \o TokensText(types[name][variant_of(r - 1) + 1])]

\* The lines of one output type: its variants in ascending output index.
TypeLines(types, name, remap) ==
    LET n == Cardinality(DOMAIN remap)
        needs_suffix == n > 1
        \* sorted_remap: the (remap_idx, variant_idx) pairs in ascending order
        variant_of(r) == CHOOSE v \in DOMAIN remap : remap[v] = r
    IN [r \in 1..n |->
           (IF needs_suffix THEN name \o <<"@">> \o Digits(r - 1) ELSE name)
           \o TokensText(types[name][variant_of(r - 1) + 1])]

\* The " {}@{}" / " {}" item of an F# record written with the index dropped
\* (a mutant).
FRecordItem_bare(name, remap_idx) ==
    IF remap_idx # usize_MAX \/ is_export(name) THEN <<" ">> \o name ELSE <<>>

\* The item of an F# record for one type of the file.
FRecordItem(name, remap_idx) ==
    IF remap_idx # usize_MAX THEN <<" ">> \o name \o <<"@">> \o Digits(remap_idx)
    ELSE IF is_export(name) THEN <<" ">> \o name
    ELSE <<>>

\* FRecordLine that also lists, bare, the types left implicit (a mutant).
FRecordLine_implicit_listed(symfile, file_types) ==
    LET sorted_types == SortByExportName(DOMAIN file_types)
    IN <<"F", "#">> \o symfile.path
       \o Flatten([k \in 1..Len(sorted_types) |->
              IF file_types[sorted_types[k]] # usize_MAX
              THEN FRecordItem(sorted_types[k], file_types[sorted_types[k]])
              ELSE <<" ">> \o sorted_types[k]])

FRecordLine(symfile, file_types) ==
    LET sorted_types == SortByExportName(DOMAIN file_types)
    IN <<"F", "#">> \o symfile.path
       \o Flatten([k \in 1..Len(sorted_types) |->
              FRecordItem(sorted_types[k], file_types[sorted_types[k]])])

\* write_consolidated: the lines written (each is followed by a newline), or
\* ok = FALSE when consolidate_type panics.
write_consolidated(corp) ==
    LET nfiles == Len(corp.files)
        file_indices == SortFileIndices(corp.files, 0..(nfiles - 1))
        walked == ConsolidateFiles(corp, file_indices, 1,
                      [ot |-> EmptyMap, ft |-> EmptyMap, fv |-> EmptyMap,
                       ok |-> TRUE])
        output_types == walked.ot
        \* the pass that marks the types with one variant in the output
        file_types == [i \in DOMAIN walked.ft |->
                          [n \in DOMAIN walked.ft[i] |->
                              IF Cardinality(DOMAIN output_types[n]) = 1
                              THEN usize_MAX ELSE walked.ft[i][n]]]
        sorted_records == SortByExportName(DOMAIN output_types)
        type_lines == Flatten([k \in 1..Len(sorted_records) |->
                          TypeLines(corp.types, sorted_records[k],
                                    output_types[sorted_records[k]])])
        file_lines == [k \in 1..nfiles |->
                          FRecordLine(corp.files[file_indices[k] + 1],
                                      file_types[file_indices[k]])]
    IN IF walked.ok THEN [ok |-> TRUE, lines |-> type_lines \o file_lines]
       ELSE [ok |-> FALSE, lines |-> <<>>]

(***************************************************************************)
(* The comparator.                                                         *)
(***************************************************************************)

\* An indentation of spaces in place of tabs.
push_indent_spaces(indent) == [k \in 1..indent |-> " "]

\* push_indent: `indent` tab characters.
push_indent(indent) == [k \in 1..indent |-> "\t"]

\* The closing bracket taking one level off whatever the indentation is.
ReduceIndent_unclamped(indent) == indent - 1

\* if indent > 0 { indent -= 1; }
ReduceIndent(indent) == IF indent > 0 THEN indent - 1 ELSE indent

\* pretty_format_type: one iteration of the loop over the tokens.
\* st = [res, indent, line].
PrettyToken(st, tok) ==
    LET closing == tok = <<"}">>
        \* the closing bracket ends any prior line and reduces the indentation
        st1 == IF closing
               THEN [res |-> IF st.line # <<>> THEN Append(st.res, st.line)
                             ELSE st.res,
                     indent |-> ReduceIndent(st.indent),
                     line |-> <<>>]
               ELSE st
        is_first == st1.line = <<>>
        line == IF is_first THEN push_indent(st1.indent) ELSE st1.line
    IN IF tok = <<"{">>
       THEN [res |-> Append(st1.res,
                        (IF is_first THEN line ELSE Append(line, " ")) \o <<"{">>),
             indent |-> st1.indent + 1, line |-> <<>>]
       ELSE IF closing
       THEN [st1 EXCEPT !.line = Append(line, "}")]
       ELSE IF tok = <<";">> \/ tok = <<",">>
       THEN [st1 EXCEPT !.res = Append(@, line \o tok), !.line = <<>>]
       ELSE [st1 EXCEPT !.line = (IF is_first THEN line ELSE Append(line, " "))
                                 \o tok]

RECURSIVE PrettyTokens(_, _, _)
PrettyTokens(tokens, k, st) ==
    IF k > Len(tokens) THEN st
    ELSE PrettyTokens(tokens, k + 1, PrettyToken(st, tokens[k].str))

\* The locals of pretty_format_type before the loop.
PrettyStart == [res |-> <<>>, indent |-> 0, line |-> <<>>]

\* if !line.is_empty() { res.push(line); } res
PrettyFinish(st) ==
    IF st.line # <<>> THEN Append(st.res, st.line) ELSE st.res

pretty_format_type(tokens) ==
    PrettyFinish(PrettyTokens(tokens, 1, PrettyStart))

\* The length of a longest common subsequence of two sequences of lines.
RECURSIVE LcsLen(_, _)
LcsLen(old, new) ==
    IF old = <<>> \/ new = <<>> THEN 0
    ELSE IF old[1] = new[1] THEN 1 + LcsLen(Tail(old), Tail(new))
    ELSE LET a == LcsLen(Tail(old), new)
             b == LcsLen(old, Tail(new))
         IN IF a >= b THEN a ELSE b

\* push_output: the lines marked with the prefix.
push_output(prefix, lines) == [k \in 1..Len(lines) |-> <<prefix>> \o lines[k]]

\* diffs::myers::diff(d, old, 0, old.len(), new, 0, new.len()), of the
\* external crate `diffs`: the calls it makes on d, in order, as records
\* [op, old, new, len] with 0-based offsets.  They form a shortest edit script
\* from old to new; where lines are replaced, the deletions are reported
\* before the insertions (as format_modification of src/sym/tests.rs expects).
\* i and j are the numbers of lines of old and new already covered.
RECURSIVE myers_diff(_, _, _, _)
myers_diff(old, i, new, j) ==
    IF i >= Len(old) /\ j >= Len(new) THEN <<>>
    ELSE IF i >= Len(old)
    THEN << [op |-> "insert", old |-> i, new |-> j, len |-> Len(new) - j] >>
    ELSE IF j >= Len(new)
    THEN << [op |-> "delete", old |-> i, new |-> j, len |-> Len(old) - i] >>
    ELSE IF old[i + 1] = new[j + 1]
    THEN << [op |-> "equal", old |-> i, new |-> j, len |-> 1] >>
         \o myers_diff(old, i + 1, new, j + 1)
    ELSE IF LcsLen(SubSeq(old, i + 2, Len(old)), SubSeq(new, j + 1, Len(new)))
               >= LcsLen(SubSeq(old, i + 1, Len(old)), SubSeq(new, j + 2, Len(new)))
    THEN << [op |-> "delete", old |-> i, new |-> j, len |-> 1] >>
         \o myers_diff(old, i + 1, new, j)
    ELSE << [op |-> "insert", old |-> i, new |-> j, len |-> 1] >>
         \o myers_diff(old, i, new, j + 1)

\* <UniDiff as diffs::Diff>::equal: the output it adds.  self = [old, new].
UniDiff_equal(self, old, len) ==
    push_output(" ", SubSeq(self.old, old + 1, old + len))

\* <UniDiff as diffs::Diff>::delete
UniDiff_delete(self, old, len) ==
    push_output("-", SubSeq(self.old, old + 1, old + len))

\* An insert that takes its lines from the old sequence.
UniDiff_insert_from_old(self, new, new_len) ==
    push_output("+", SubSeq(self.old, new + 1, new + new_len))

\* <UniDiff as diffs::Diff>::insert
UniDiff_insert(self, new, new_len) ==
    push_output("+", SubSeq(self.new, new + 1, new + new_len))

\* <UniDiff as diffs::Diff>::replace
UniDiff_replace(self, old, old_len, new, new_len) ==
    push_output("-", SubSeq(self.old, old + 1, old + old_len))
    \o push_output("+", SubSeq(self.new, new + 1, new + new_len))

\* diff::unified: the output of the UniDiff after the calls of myers::diff.
unified(old, new) ==
    LET self == [old |-> old, new |-> new]
        calls == myers_diff(old, 0, new, 0)
    IN Flatten([k \in 1..Len(calls) |->
                   LET c == calls[k]
                   IN IF c.op = "equal" THEN UniDiff_equal(self, c.old, c.len)
                      ELSE IF c.op = "delete" THEN UniDiff_delete(self, c.old, c.len)
                      ELSE IF c.op = "insert" THEN UniDiff_insert(self, c.new, c.len)
                      ELSE UniDiff_replace(self, c.old, c.len, c.new, c.len)])

get_type_diff(tokens, other_tokens) ==
    unified(pretty_format_type(tokens), pretty_format_type(other_tokens))

\* get_type_tokens: the tokens of `name` in `file`, or one of its panics.
get_type_tokens(symtypes, file, name) ==
    IF name \in DOMAIN file.records
    THEN IF name \in DOMAIN symtypes.types
         THEN IF file.records[name] < Len(symtypes.types[name])
              THEN [panic |-> FALSE,
                    tokens |-> symtypes.types[name][file.records[name] + 1]]
              ELSE [panic |-> TRUE, tokens |-> <<>>]  \* index out of bounds
         ELSE [panic |-> TRUE, tokens |-> <<>>]  \* "has a missing declaration"
    ELSE [panic |-> TRUE, tokens |-> <<>>]       \* "is not known in file"

\* record_type_change without the scan for an equal pair.
record_type_change_push(name, tokens, other_tokens, changes) ==
    IF name \in DOMAIN changes
    THEN MapInsert(changes, name, Append(changes[name], <<tokens, other_tokens>>))
    ELSE MapInsert(changes, name, << <<tokens, other_tokens>> >>)

\* record_type_change: the body runs under the changes mutex.
record_type_change(name, tokens, other_tokens, changes) ==
    IF name \in DOMAIN changes
    THEN LET variants == changes[name]
         IN IF \E k \in 1..Len(variants) :
                   /\ are_tokens_eq(tokens, variants[k][1])
                   /\ are_tokens_eq(other_tokens, variants[k][2])
            THEN changes
            ELSE MapInsert(changes, name, Append(variants, <<tokens, other_tokens>>))
    ELSE MapInsert(changes, name, << <<tokens, other_tokens>> >>)

\* (Token::Atom(word), Token::Atom(other_word)) => word == other_word, with
\* the answer always false (a mutant).
AtomsEqual_never(word, other_word) == FALSE

\* (Token::Atom(word), Token::Atom(other_word)) => word == other_word
AtomsEqual(word, other_word) == word = other_word

\* The test of `processed` answering yes only from the third visit of a name
\* on (a mutant).
AlreadyProcessed_third_visit(name, st) ==
    Cardinality({k \in 1..Len(st.visits) : st.visits[k] = name}) >= 2

\* processed.get(name) of compare_types.
AlreadyProcessed(name, st) == name \in st.processed

(***************************************************************************)
(* compare_types.  st = [processed, visits, calls, panic]: the HashSet of  *)
(* the walk, the names whose tokens the walk has fetched (in order; a      *)
(* record kept for the properties), the record_type_change calls made so   *)
(* far (in order) and whether get_type_tokens panicked.                    *)
(***************************************************************************)
RECURSIVE compare_types(_, _, _, _, _, _)
RECURSIVE CompareTokens(_, _, _, _, _, _, _, _)

\* The loop over 0..min_tokens.  acc = [st, is_equal].
CompareTokens(self, other, file, other_file, tokens, other_tokens, i, acc) ==
    LET min_tokens == IF Len(tokens) <= Len(other_tokens)
                      THEN Len(tokens) ELSE Len(other_tokens)
    IN IF i > min_tokens \/ acc.st.panic THEN acc
       ELSE LET token == tokens[i]
                other_token == other_tokens[i]
                next ==
                    IF token.kind = "TypeRef" /\ other_token.kind = "TypeRef"
                    THEN IF token.str = other_token.str
                         THEN [st |-> compare_types(self, other, file, other_file,
                                                    token.str, acc.st),
                               is_equal |-> acc.is_equal]
                         ELSE [acc EXCEPT !.is_equal = FALSE]
                    ELSE IF token.kind = "Atom" /\ other_token.kind = "Atom"
                    THEN [acc EXCEPT !.is_equal =
                             @ /\ AtomsEqual(token.str, other_token.str)]
                    ELSE [acc EXCEPT !.is_equal = FALSE]
            IN CompareTokens(self, other, file, other_file, tokens, other_tokens,
                             i + 1, next)

compare_types(self, other, file, other_file, name, st) ==
    IF st.panic \/ AlreadyProcessed(name, st) THEN st
    ELSE LET st1 == [st EXCEPT !.processed = @ \cup {name},
                               !.visits = Append(@, name)]
             t == get_type_tokens(self, file, name)
             o == get_type_tokens(other, other_file, name)
         IN IF t.panic \/ o.panic THEN [st1 EXCEPT !.panic = TRUE]
            ELSE LET r == CompareTokens(self, other, file, other_file,
                              t.tokens, o.tokens, 1,
                              [st |-> st1,
                               is_equal |-> Len(t.tokens) = Len(o.tokens)])
                 IN IF r.st.panic \/ r.is_equal THEN r.st
                    ELSE [r.st EXCEPT !.calls =
                             Append(@, <<name, t.tokens, o.tokens>>)]

\* The text of the lines that compare_with prints.
TextExport == <<"E", "x", "p", "o", "r", "t", " ">>

TextIsPresentIn ==
    <<" ", "i", "s", " ", "p", "r", "e", "s", "e", "n", "t", " ", "i", "n", " ">>

TextButNotIn == <<" ", "b", "u", "t", " ", "n", "o", "t", " ", "i", "n", " ">>

\* "Export {} is present in A but not in B"
PresentInANotB(name) ==
    TextExport \o name \o TextIsPresentIn \o <<"A">> \o TextButNotIn \o <<"B">>

\* "Export {} is present in B but not in A"
PresentInBNotA(name) ==
    TextExport \o name \o TextIsPresentIn \o <<"B">> \o TextButNotIn \o <<"A">>

\* The lines printed for one entry of `changes`: for every pair of the name,
\* the name and the lines of get_type_diff.
ChangeLines(name, variants) ==
    Flatten([k \in 1..Len(variants) |->
                <<name>> \o get_type_diff(variants[k][1], variants[k][2])])

\* The orders in which the keys of a HashMap may be iterated: every
\* enumeration of the set S without repetition.
Orderings(S) ==
    {q \in [1..Cardinality(S) -> S] : \A i, j \in DOMAIN q : i # j => q[i] # q[j]}

(***************************************************************************)
(* Inputs.  A file to load is [path, lines, ioerr]; ioerr marks a file     *)
(* whose File::open or read fails.                                         *)
(***************************************************************************)
Join(words) ==
    Flatten([k \in 1..Len(words) |->
                IF k = 1 THEN words[k] ELSE <<" ">> \o words[k]])

w_sf == <<"s", "#", "f">>     \* s#f
w_sq == <<"s", "#", "q">>     \* s#q
w_ba == <<"b", "a">>          \* export ba
w_bz == <<"b", "z">>          \* export bz
w_A == <<"A">>
w_B == <<"B">>

SymtypesFile(path, lines) == [path |-> path, lines |-> lines, ioerr |-> FALSE]

\* x: the export ba uses s#f, declared as A.
FileX == SymtypesFile(<<"x">>, << Join(<<w_sf, w_A>>), Join(<<w_ba, w_sf>>) >>)

\* y: the export bz uses s#f, declared as B, and s#q.
FileY == SymtypesFile(<<"y">>,
             << Join(<<w_sf, w_B>>), Join(<<w_sq, w_A>>),
                Join(<<w_bz, w_sf, w_sq>>) >>)

\* z: declares s#f as A, like x, and exports nothing.
FileZ == SymtypesFile(<<"z">>, << Join(<<w_sf, w_A>>) >>)

\* u: the export ba refers to s#q, which the file does not declare.
FileU == SymtypesFile(<<"u">>, << Join(<<w_ba, w_sq>>) >>)

\* a: a single-file input whose record name is a@b@c.
FileA == SymtypesFile(<<"a">>, << Join(<< <<"a", "@", "b", "@", "c">>, w_A >>) >>)

\* c: a consolidated input; its file y exports bz, which uses s#f (declared
\* once, as B, hence left implicit on the F# record).
FileC == SymtypesFile(<<"c">>,
             << Join(<<w_sf, w_B>>), Join(<<w_bz, w_sf>>),
                Join(<< <<"F", "#", "y">>, w_bz >>) >>)

\* m: a consolidated input with two variants of s#f, none of which the F#
\* record of z selects; s#f@0 refers to s#q.
FileM == SymtypesFile(<<"m">>,
             << Join(<< w_sf \o <<"@", "0">>, w_A, w_sq >>),
                Join(<< w_sf \o <<"@", "1">>, w_B >>),
                Join(<<w_sq, w_A>>),
                Join(<<w_ba, w_sf>>),
                Join(<< <<"F", "#", "z">>, w_ba >>) >>)

\* q: a consolidated input whose F# record names a type of unknown variant.
FileQ == SymtypesFile(<<"q">>,
             << Join(<<w_ba, w_A>>),
                Join(<< <<"F", "#", "z">>, w_ba, w_bz >>) >>)

\* p: a consolidated input whose export refers to s#q, declared nowhere.
FileP == SymtypesFile(<<"p">>,
             << Join(<<w_ba, w_sq>>),
                Join(<< <<"F", "#", "z">>, w_ba >>) >>)

\* a/b and a.b: two files that share the declaration of s#q and differ in that
\* of s#f.  Path order puts a/b first (component "a" before component "a.b");
\* the order of the bytes of the two texts puts a.b first ('.' before '/').
FileAB == SymtypesFile(<<"a", "/", "b">>,
              << Join(<<w_sf, w_A>>), Join(<<w_sq, w_A>>),
                 Join(<<w_ba, w_sf, w_sq>>) >>)

FileDot == SymtypesFile(<<"a", ".", "b">>,
               << Join(<<w_sf, w_B>>), Join(<<w_sq, w_A>>),
                  Join(<<w_bz, w_sf, w_sq>>) >>)

\* d and e: two files with the same exports, ba and bz, over a type s#f that
\* refers to itself; the declarations of s#f and of s#q differ between the two.
FileD == SymtypesFile(<<"d">>,
             << Join(<<w_sf, w_A, w_sf>>), Join(<<w_sq, w_A>>),
                Join(<<w_ba, w_sf>>), Join(<<w_bz, w_sf, w_sq>>) >>)

FileE == SymtypesFile(<<"e">>,
             << Join(<<w_sf, w_B, w_sf>>), Join(<<w_sq, w_B>>),
                Join(<<w_ba, w_sf>>), Join(<<w_bz, w_sf, w_sq>>) >>)

\* w: a single-file input that declares s#f twice.
FileW == SymtypesFile(<<"w">>,
             << Join(<<w_sf, w_A>>), Join(<<w_sf, w_B>>), Join(<<w_ba, w_sf>>) >>)

\* g: a consolidated input with two F# records of the file z.
FileG == SymtypesFile(<<"g">>,
             << Join(<<w_ba, w_A>>),
                Join(<< <<"F", "#", "z">>, w_ba >>),
                Join(<< <<"F", "#", "z">>, w_ba >>) >>)

\* b: a single-file input with an empty line between its two records and a
\* line of one space after them; FileBNoBlank is the same stream without the
\* two blank lines.
FileB == SymtypesFile(<<"b">>,
             << Join(<<w_sf, w_A>>), <<>>, Join(<<w_ba, w_sf>>), <<" ">> >>)

FileBNoBlank == SymtypesFile(<<"b">>,
                    << Join(<<w_sf, w_A>>), Join(<<w_ba, w_sf>>) >>)

\* h: two versions of a file whose export ba differs in its first token and
\* refers to s#q, which neither version declares.
FileH == SymtypesFile(<<"h">>, << Join(<<w_ba, w_A, w_sq>>) >>)

FileHChanged == SymtypesFile(<<"h">>, << Join(<<w_ba, w_B, w_sq>>) >>)

\* o: a file that cannot be opened.
FileO == [path |-> <<"o">>, lines |-> <<>>, ioerr |-> TRUE]

\* The path at which a consolidated output is stored to be loaded again.
OutPath == <<"o">>

\* What a driver does with one corpus: the list of files of its first load and
\* the lists it may load afterwards.
Plans ==
    { [first |-> <<FileX>>, again |-> {<<FileY>>}],
      [first |-> <<FileX, FileY, FileZ>>, again |-> {<<FileZ, FileY, FileX>>}],
      [first |-> <<FileX, FileC>>, again |-> {<<FileC, FileX>>}],
      [first |-> <<FileDot, FileAB>>, again |-> {}],
      [first |-> <<FileD>>, again |-> {<<FileE>>}],
      [first |-> <<FileU>>, again |-> {<<FileU, FileY>>}],
      [first |-> <<FileA>>, again |-> {}],
      [first |-> <<FileBNoBlank>>, again |-> {<<FileB>>}],
      [first |-> <<FileH>>, again |-> {<<FileHChanged>>}],
      [first |-> <<FileW>>, again |-> {}],
      [first |-> <<FileG>>, again |-> {}],
      [first |-> <<FileM>>, again |-> {}],
      [first |-> <<FileP>>, again |-> {}],
      [first |-> <<FileQ, FileX>>, again |-> {}],
      [first |-> <<FileO, FileX>>, again |-> {}] }

(***************************************************************************)
(* State.                                                                  *)
(***************************************************************************)
VARIABLES
    plan,           \* the driver's plan, fixed at the start
    loads,          \* number of load_multiple calls made so far
    phase,          \* "idle", "loading", "loaded", "written", "panicked",
                    \* "comparing", "compared", "compare_panicked"
    kind,           \* what the current load reads: "first", "again", "output"
    symfiles,       \* the argument of the current load_multiple call
    num_workers,    \* the argument of the current load_multiple call
    next_work_idx,  \* the AtomicUsize of load_multiple
    ctx,            \* ParallelLoadContext: types, exports, files
    workers,        \* the locals of each worker thread, by worker number
    corpus,         \* the SymCorpus (self): types, exports, files
    load_result,    \* what the last load_multiple call returned
    out,            \* what write_consolidated wrote for the loaded corpus
    prev,           \* the driver's record of the previous load and write
    cmp,            \* the locals and the standard output of compare_with
    unit            \* the call of a unit test: its arguments, locals and result

vars == <<plan, loads, phase, kind, symfiles, num_workers, next_work_idx, ctx,
          workers, corpus, load_result, out, prev, cmp, unit>>

EmptyCorpus == [types |-> EmptyMap, exports |-> EmptyMap, files |-> <<>>]

NoOutput == [ok |-> FALSE, lines |-> <<>>]

\* The locals of a worker before it takes a work item.
IdleWorker ==
    [pc |-> "fetch", result |-> "none", error |-> <<>>,
     multi_variant_err |-> FALSE, path |-> <<>>, lines |-> <<>>, is_consolidated |-> FALSE, i |-> 0,
     records |-> EmptyMap, remap |-> EmptyMap, file_indices |-> <<>>,
     fi |-> 0, file_name |-> <<>>, words |-> <<>>, walk_records |-> {},
     name |-> <<>>]

\* The locals of a worker of compare_with before it takes a work item.
IdleComparer ==
    [pc |-> "fetch", name |-> <<>>, calls |-> <<>>, panics |-> FALSE,
     visits |-> <<>>]

\* compare_with has not been called.
NoCompare ==
    [a |-> EmptyCorpus, b |-> EmptyCorpus, num_workers |-> 0, next_work_idx |-> 0,
     works |-> {}, changes |-> EmptyMap, workers |-> <<>>, stdout |-> <<>>,
     rerun |-> FALSE, before |-> <<>>]

\* No unit test runs.
NoUnit == [fn |-> "none"]

Init ==
    /\ plan \in Plans
    /\ loads = 0
    /\ phase = "idle"
    /\ kind = "none"
    /\ symfiles = <<>>
    /\ num_workers = 0
    /\ next_work_idx = 0
    /\ ctx = EmptyCorpus
    /\ workers = <<>>
    /\ corpus = EmptyCorpus
    /\ load_result = "none"
    /\ out = NoOutput
    /\ prev = [kind |-> "none", symfiles |-> <<>>, corpus |-> EmptyCorpus,
               out |-> NoOutput]
    /\ cmp = NoCompare
    /\ unit = NoUnit

(***************************************************************************)
(* The driver: SymCorpus::new() once, then load_multiple and               *)
(* write_consolidated in turn.                                             *)
(***************************************************************************)
BeginLoad(k, files, n) ==
    /\ phase \in {"idle", "loaded", "written"}
    /\ loads < MaxLoads
    /\ loads' = loads + 1
    /\ phase' = "loading"
    /\ kind' = k
    /\ symfiles' = files
    /\ num_workers' = n
    /\ next_work_idx' = 0
    /\ ctx' = EmptyCorpus
    /\ workers' = [w \in 1..n |-> IdleWorker]
    /\ load_result' = "none"
    /\ prev' = [kind |-> kind, symfiles |-> symfiles, corpus |-> corpus,
                out |-> out]
    /\ out' = NoOutput
    /\ UNCHANGED <<plan, corpus, cmp, unit>>

\* The first load of the corpus.
LoadFirst ==
    /\ loads = 0
    /\ \E n \in 1..MaxWorkers : BeginLoad("first", plan.first, n)

\* A further load into the same corpus object.
LoadAgain ==
    /\ loads > 0
    /\ \E files \in plan.again, n \in 1..MaxWorkers : BeginLoad("again", files, n)

\* A load of the consolidated file just written.
LoadOutput ==
    /\ phase = "written"
    /\ out.ok
    /\ \E n \in 1..MaxWorkers :
          BeginLoad("output", <<SymtypesFile(OutPath, out.lines)>>, n)

(***************************************************************************)
(* load_multiple: the worker loop.                                         *)
(***************************************************************************)
SetWorker(w, rec) ==
    workers' = [workers EXCEPT ![w] = rec]

TextType ==
    <<"T", "y", "p", "e", " ">>

TextIsNotKnown ==
    <<" ", "i", "s", " ", "n", "o", "t", " ", "k", "n", "o", "w", "n">>

TextInFile ==
    <<" ", "i", "n", " ", "f", "i", "l", "e", " ">>

\* format!("Type {}@{} is not known in file {}", type_name,
\*         orig_variant_name, path.display())
TypeIsNotKnownInFile(type_name, orig_variant_name, path) ==
    TextType \o type_name \o <<"@">> \o orig_variant_name
    \o TextIsNotKnown \o TextInFile \o path

Finish(wk, res) ==
    [IdleWorker EXCEPT !.pc = "done", !.result = res,
                       !.multi_variant_err = wk.multi_variant_err]

\* A fetch_add that adds the value twice.
fetch_add_twice(cur, val) == cur + val + val

\* AtomicUsize::fetch_add(val): the value stored, the one returned being cur.
fetch_add(cur, val) == cur + val

\* fetch_add on next_work_idx, File::open and the reading of all lines.
Fetch(w) ==
    /\ phase = "loading"
    /\ w <= num_workers
    /\ workers[w].pc = "fetch"
    /\ next_work_idx' = fetch_add(next_work_idx, 1)
    /\ LET wk == workers[w]
           work_idx == next_work_idx
       IN IF work_idx >= Len(symfiles) THEN SetWorker(w, Finish(wk, "Ok"))
          ELSE LET f == symfiles[work_idx + 1]
               IN IF f.ioerr THEN SetWorker(w, Finish(wk, "ErrIo"))
                  ELSE SetWorker(w,
                          [IdleWorker EXCEPT
                              !.pc = "parse",
                              !.multi_variant_err = wk.multi_variant_err,
                              !.path = f.path,
                              !.lines = f.lines,
                              !.is_consolidated =
                                  \E k \in 1..Len(f.lines) : starts_with_F(f.lines[k])])
    /\ UNCHANGED <<plan, loads, phase, kind, symfiles, num_workers, ctx, corpus,
                   load_result, out, prev, cmp, unit>>

TextExpectedARecordName ==
    <<"E", "x", "p", "e", "c", "t", "e", "d", " ", "a", " ", "r", "e", "c",
      "o", "r", "d", " ", "n", "a", "m", "e">>

\* A reader that fails on a line without a first word.
EmptyRecord_rejected(wk) ==
    [Finish(wk, "ErrParse") EXCEPT
        !.error = wk.path \o <<":">> \o Digits(wk.i + 1) \o <<":", " ">>
                  \o TextExpectedARecordName]

\* words.next() is None: `continue`, the loop goes on with the next line.
EmptyRecord(wk) ==
    [wk EXCEPT !.i = @ + 1]

\* One iteration of the loop over the lines of load_single, up to the
\* insertion of the record into remap or records.
ParseLine(w) ==
    /\ phase = "loading"
    /\ w <= num_workers
    /\ workers[w].pc = "parse"
    /\ workers[w].i < Len(workers[w].lines)
    /\ LET wk == workers[w]
           line == wk.lines[wk.i + 1]
           words == split_ascii_whitespace(line)
           next == [wk EXCEPT !.i = @ + 1]
       IN IF starts_with_F(line)
          THEN /\ SetWorker(w, [next EXCEPT !.file_indices = Append(@, wk.i)])
               /\ UNCHANGED ctx
          ELSE IF words = <<>>
          THEN /\ SetWorker(w, EmptyRecord(wk))
               /\ UNCHANGED ctx
          ELSE LET sv == SplitVariant(words[1])
                   tokens == Tokenize(Tail(words))
                   m == merge_type(ctx.types, sv.name, tokens)
               IN /\ ctx' = [ctx EXCEPT !.types = m.types]
                  /\ IF wk.is_consolidated
                     THEN SetWorker(w,
                             [next EXCEPT !.remap =
                                 MapInsert(@, sv.name,
                                     MapInsert(IF sv.name \in DOMAIN wk.remap
                                               THEN wk.remap[sv.name] ELSE EmptyMap,
                                               sv.orig, m.idx))])
                     ELSE IF is_export(sv.name)
                     THEN SetWorker(w,
                             [wk EXCEPT !.records = MapInsert(@, sv.name, m.idx),
                                        !.pc = "export", !.name = sv.name])
                     ELSE SetWorker(w,
                             [next EXCEPT !.records = MapInsert(@, sv.name, m.idx)])
    /\ UNCHANGED <<plan, loads, phase, kind, symfiles, num_workers, next_work_idx,
                   corpus, load_result, out, prev, cmp, unit>>

\* exports.insert(name, files.len()) for a record of a single-file input.
InstallExport(w) ==
    /\ phase = "loading"
    /\ w <= num_workers
    /\ workers[w].pc = "export"
    /\ ctx' = [ctx EXCEPT !.exports = MapInsert(@, workers[w].name, Len(ctx.files))]
    /\ SetWorker(w, [workers[w] EXCEPT !.pc = "parse", !.i = @ + 1, !.name = <<>>])
    /\ UNCHANGED <<plan, loads, phase, kind, symfiles, num_workers, next_work_idx,
                   corpus, load_result, out, prev, cmp, unit>>

\* The end of load_single for a single-file input: files.push(symfile).
PushSymFile(w) ==
    /\ phase = "loading"
    /\ w <= num_workers
    /\ workers[w].pc = "parse"
    /\ workers[w].i >= Len(workers[w].lines)
    /\ ~workers[w].is_consolidated
    /\ ctx' = [ctx EXCEPT !.files =
                  Append(@, [path |-> workers[w].path, records |-> workers[w].records])]
    /\ SetWorker(w, [IdleWorker EXCEPT
                        !.multi_variant_err = workers[w].multi_variant_err])
    /\ UNCHANGED <<plan, loads, phase, kind, symfiles, num_workers, next_work_idx,
                   corpus, load_result, out, prev, cmp, unit>>

\* The worker at the start of the F# record number fi (0-based position in
\* file_indices), or back at the work loop when there is none left.
AtFileRecord(wk, fi) ==
    IF fi >= Len(wk.file_indices)
    THEN [IdleWorker EXCEPT !.multi_variant_err = wk.multi_variant_err]
    ELSE LET words == split_ascii_whitespace(wk.lines[wk.file_indices[fi + 1] + 1])
             record_name == words[1]
         IN [wk EXCEPT !.pc = "ftoken", !.fi = fi,
                       !.file_name = SubSeq(record_name, 3, Len(record_name)),
                       !.words = Tail(words),
                       !.records = EmptyMap,
                       !.walk_records = {}, !.name = <<>>]

\* The end of the loop over the lines of a consolidated input.
BeginFileRecords(w) ==
    /\ phase = "loading"
    /\ w <= num_workers
    /\ workers[w].pc = "parse"
    /\ workers[w].i >= Len(workers[w].lines)
    /\ workers[w].is_consolidated
    /\ SetWorker(w, AtFileRecord(workers[w], 0))
    /\ UNCHANGED <<plan, loads, phase, kind, symfiles, num_workers, next_work_idx,
                   ctx, corpus, load_result, out, prev, cmp, unit>>

\* One type of an F# record: the look-up in remap and records.insert; after
\* the last one, the copy of records into walk_records.
FileRecordToken(w) ==
    /\ phase = "loading"
    /\ w <= num_workers
    /\ workers[w].pc = "ftoken"
    /\ LET wk == workers[w]
       IN IF wk.words = <<>>
          THEN SetWorker(w, [wk EXCEPT !.pc = "walk",
                  !.walk_records = {<<n, wk.records[n]>> : n \in DOMAIN wk.records}])
          ELSE LET sv == SplitVariant(Head(wk.words))
               IN IF sv.name \in DOMAIN wk.remap /\ sv.orig \in DOMAIN wk.remap[sv.name]
                  THEN SetWorker(w,
                          [wk EXCEPT !.records =
                                         MapInsert(@, sv.name, wk.remap[sv.name][sv.orig]),
                                     !.words = Tail(@),
                                     !.pc = IF is_export(sv.name) THEN "fexport" ELSE "ftoken",
                                     !.name = IF is_export(sv.name) THEN sv.name ELSE <<>>])
                  ELSE SetWorker(w,
                          [Finish(wk, "ErrParse") EXCEPT
                              !.error = TypeIsNotKnownInFile(sv.name, sv.orig,
                                                             wk.path)])
    /\ UNCHANGED <<plan, loads, phase, kind, symfiles, num_workers, next_work_idx,
                   ctx, corpus, load_result, out, prev, cmp, unit>>

\* exports.insert(type_name, file_idx), file_idx = files.len(), for an export
\* named on an F# record.
InstallFileExport(w) ==
    /\ phase = "loading"
    /\ w <= num_workers
    /\ workers[w].pc = "fexport"
    /\ ctx' = [ctx EXCEPT !.exports = MapInsert(@, workers[w].name, Len(ctx.files))]
    /\ SetWorker(w, [workers[w] EXCEPT !.pc = "ftoken", !.name = <<>>])
    /\ UNCHANGED <<plan, loads, phase, kind, symfiles, num_workers, next_work_idx,
                   corpus, load_result, out, prev, cmp, unit>>

\* One iteration of the loop over walk_records (in the order of a HashMap,
\* which is any order): extrapolate_file_record under the types mutex.  Its
\* Result is dropped.  A panic of the call ends the whole load.
WalkRecord(w) ==
    /\ phase = "loading"
    /\ w <= num_workers
    /\ workers[w].pc = "walk"
    /\ \E r \in workers[w].walk_records :
          LET wk == workers[w]
              e == extrapolate_file_record(r[1], r[2], TRUE, ctx.types,
                       [records |-> wk.records, err |-> FALSE, panic |-> FALSE])
          IN /\ SetWorker(w, [wk EXCEPT !.records = e.records,
                                        !.walk_records = @ \ {r},
                                        !.multi_variant_err = @ \/ e.err])
             /\ phase' = IF e.panic THEN "panicked" ELSE phase
    /\ UNCHANGED <<plan, loads, kind, symfiles, num_workers, next_work_idx,
                   ctx, corpus, load_result, out, prev, cmp, unit>>

\* files.push(symfile) for an F# record.
PushFileRecord(w) ==
    /\ phase = "loading"
    /\ w <= num_workers
    /\ workers[w].pc = "walk"
    /\ workers[w].walk_records = {}
    /\ ctx' = [ctx EXCEPT !.files =
                  Append(@, [path |-> workers[w].file_name,
                             records |-> workers[w].records])]
    /\ SetWorker(w, AtFileRecord(workers[w], workers[w].fi + 1))
    /\ UNCHANGED <<plan, loads, phase, kind, symfiles, num_workers, next_work_idx,
                   corpus, load_result, out, prev, cmp, unit>>

\* The end of thread::scope: every worker has returned; the Results of the
\* workers are not looked at.  *self is replaced and Ok(()) returned.
LoadReturn ==
    /\ phase = "loading"
    /\ \A w \in 1..num_workers : workers[w].pc = "done"
    /\ corpus' = ctx
    /\ ctx' = EmptyCorpus
    /\ load_result' = "Ok"
    /\ phase' = "loaded"
    /\ UNCHANGED <<plan, loads, kind, symfiles, num_workers, next_work_idx,
                   workers, out, prev, cmp, unit>>

\* write_consolidated on the loaded corpus.
WriteConsolidated ==
    /\ phase = "loaded"
    /\ out' = write_consolidated(corpus)
    /\ phase' = IF out'.ok THEN "written" ELSE "panicked"
    /\ UNCHANGED <<plan, loads, kind, symfiles, num_workers, next_work_idx, ctx,
                   workers, corpus, load_result, prev, cmp, unit>>

(***************************************************************************)
(* compare_with.  cmp.a is self and cmp.b is other.  cmp.works holds the   *)
(* entries of `works` that no worker has taken yet: works is collected     *)
(* from a HashMap, so the entry at the next index is any of them.          *)
(***************************************************************************)
BeginCompare(a, b, n, rerun, before) ==
    /\ phase' = "comparing"
    /\ cmp' = [a |-> a, b |-> b, num_workers |-> n, next_work_idx |-> 0,
               works |-> DOMAIN a.exports, changes |-> EmptyMap,
               workers |-> [w \in 1..n |-> IdleComparer], stdout |-> <<>>,
               rerun |-> rerun, before |-> before]
    \* the locals of load_multiple and its Result are gone by now
    /\ num_workers' = 0
    /\ next_work_idx' = 0
    /\ workers' = <<>>
    /\ load_result' = "none"
    /\ UNCHANGED <<plan, loads, kind, symfiles, ctx, corpus, out, prev, unit>>

\* The driver compares the corpus of its first load with itself, and later
\* the corpus of the load before with the one just loaded.
Compare ==
    /\ phase = "loaded"
    /\ \E n \in 1..MaxWorkers :
          \/ loads = 1 /\ BeginCompare(corpus, corpus, n, FALSE, <<>>)
          \/ loads > 1 /\ BeginCompare(prev.corpus, corpus, n, FALSE, <<>>)

\* The driver runs the same comparison once more.
CompareAgain ==
    /\ phase = "compared"
    /\ ~cmp.rerun
    /\ BeginCompare(cmp.a, cmp.b, cmp.num_workers, TRUE, cmp.stdout)

SetComparer(w, rec) ==
    cmp' = [cmp EXCEPT !.workers[w] = rec]

\* fetch_add on next_work_idx, the look-up of the export in other.exports and
\* the walk of compare_types up to its first record_type_change (to its end
\* when it has no change to record).
CompareFetch(w) ==
    /\ phase = "comparing"
    /\ w <= cmp.num_workers
    /\ cmp.workers[w].pc = "fetch"
    /\ LET work_idx == cmp.next_work_idx
           bumped == [cmp EXCEPT !.next_work_idx = @ + 1]
       IN IF work_idx >= Cardinality(DOMAIN cmp.a.exports)
          THEN cmp' = [bumped EXCEPT !.workers[w] = [IdleComparer EXCEPT !.pc = "done"]]
          ELSE \E name \in cmp.works :
                 LET file_idx == cmp.a.exports[name]
                     taken == [bumped EXCEPT !.works = @ \ {name}]
                 IN IF file_idx >= Len(cmp.a.files)
                    THEN \* self.files[*file_idx]: index out of bounds
                         cmp' = [taken EXCEPT !.workers[w].pc = "panicked"]
                    ELSE IF name \notin DOMAIN cmp.b.exports
                    THEN cmp' = [taken EXCEPT !.workers[w].pc = "print",
                                              !.workers[w].name = name]
                    ELSE IF cmp.b.exports[name] >= Len(cmp.b.files)
                    THEN cmp' = [taken EXCEPT !.workers[w].pc = "panicked"]
                    ELSE LET r == compare_types(cmp.a, cmp.b,
                                      cmp.a.files[file_idx + 1],
                                      cmp.b.files[cmp.b.exports[name] + 1], name,
                                      [processed |-> {}, visits |-> <<>>,
                                       calls |-> <<>>, panic |-> FALSE])
                         IN cmp' = [taken EXCEPT
                                       !.workers[w] =
                                           [pc |-> IF r.calls # <<>> THEN "record"
                                                   ELSE IF r.panic THEN "panicked"
                                                   ELSE "fetch",
                                            name |-> name,
                                            calls |-> r.calls, panics |-> r.panic,
                                            visits |-> r.visits]]
    /\ UNCHANGED <<plan, loads, phase, kind, symfiles, num_workers, next_work_idx,
                   ctx, workers, corpus, load_result, out, prev, unit>>

\* println!("Export {} is present in A but not in B", name) in a worker.
ComparePrint(w) ==
    /\ phase = "comparing"
    /\ w <= cmp.num_workers
    /\ cmp.workers[w].pc = "print"
    /\ cmp' = [cmp EXCEPT !.stdout = Append(@, PresentInANotB(cmp.workers[w].name)),
                          !.workers[w] = IdleComparer]
    /\ UNCHANGED <<plan, loads, phase, kind, symfiles, num_workers, next_work_idx,
                   ctx, workers, corpus, load_result, out, prev, unit>>

\* The next record_type_change of the walk and, after the last one, the end
\* of the walk: the panic of get_type_tokens, or the return to the work loop.
CompareRecord(w) ==
    /\ phase = "comparing"
    /\ w <= cmp.num_workers
    /\ cmp.workers[w].pc = "record"
    /\ LET wk == cmp.workers[w]
           c == Head(wk.calls)
       IN cmp' = [cmp EXCEPT
                     !.changes = record_type_change(c[1], c[2], c[3], @),
                     !.workers[w].calls = Tail(@),
                     !.workers[w].pc = IF Tail(wk.calls) # <<>> THEN "record"
                                       ELSE IF wk.panics THEN "panicked"
                                       ELSE "fetch"]
    /\ UNCHANGED <<plan, loads, phase, kind, symfiles, num_workers, next_work_idx,
                   ctx, workers, corpus, load_result, out, prev, unit>>

\* The end of thread::scope and the rest of compare_with: a panic of a worker
\* is passed on; otherwise the exports that only other has and the changes are
\* printed, each loop in the order of its HashMap.
CompareReturn ==
    /\ phase = "comparing"
    /\ \A w \in 1..cmp.num_workers : cmp.workers[w].pc \in {"done", "panicked"}
    /\ IF \E w \in 1..cmp.num_workers : cmp.workers[w].pc = "panicked"
       THEN /\ phase' = "compare_panicked"
            /\ UNCHANGED cmp
       ELSE /\ phase' = "compared"
            /\ \E eo \in Orderings({n \in DOMAIN cmp.b.exports :
                                       n \notin DOMAIN cmp.a.exports}),
                  co \in Orderings(DOMAIN cmp.changes) :
                  cmp' = [cmp EXCEPT !.stdout =
                             @ \o [k \in 1..Len(eo) |-> PresentInBNotA(eo[k])]
                               \o Flatten([k \in 1..Len(co) |->
                                     ChangeLines(co[k], cmp.changes[co[k]])])]
    /\ UNCHANGED <<plan, loads, kind, symfiles, num_workers, next_work_idx, ctx,
                   workers, corpus, load_result, out, prev, unit>>

Next ==
    \/ LoadFirst
    \/ LoadAgain
    \/ LoadOutput
    \/ \E w \in 1..MaxWorkers :
          \/ Fetch(w)
          \/ ParseLine(w)
          \/ InstallExport(w)
          \/ PushSymFile(w)
          \/ BeginFileRecords(w)
          \/ FileRecordToken(w)
          \/ InstallFileExport(w)
          \/ WalkRecord(w)
          \/ PushFileRecord(w)
          \/ CompareFetch(w)
          \/ ComparePrint(w)
          \/ CompareRecord(w)
    \/ LoadReturn
    \/ WriteConsolidated
    \/ Compare
    \/ CompareAgain
    \/ CompareReturn

Spec == Init /\ [][Next]_vars

(***************************************************************************)
(* Unit tests of the functions of the comparator and of merge_type, in the *)
(* manner of src/sym/tests.rs: a test calls one function on arguments of   *)
(* its choice, while no corpus is loaded.                                  *)
(***************************************************************************)
program_vars == <<plan, loads, phase, kind, symfiles, num_workers, next_work_idx,
                  ctx, workers, corpus, load_result, out, prev, cmp>>

NoPlan == [first |-> <<>>, again |-> {}]

\* The program before any load, with no load to come.
ProgramIdle ==
    /\ plan = NoPlan
    /\ loads = 0
    /\ phase = "idle"
    /\ kind = "none"
    /\ symfiles = <<>>
    /\ num_workers = 0
    /\ next_work_idx = 0
    /\ ctx = EmptyCorpus
    /\ workers = <<>>
    /\ corpus = EmptyCorpus
    /\ load_result = "none"
    /\ out = NoOutput
    /\ prev = [kind |-> "none", symfiles |-> <<>>, corpus |-> EmptyCorpus,
               out |-> NoOutput]
    /\ cmp = NoCompare

\* All sequences of at most n elements of S.
SeqsUpTo(S, n) == UNION {[1..m -> S] : m \in 0..n}

\* The words the tests of pretty_format_type build their types from: the four
\* structural tokens, a plain word and a type reference.
PrettyWords == { <<"{">>, <<"}">>, <<";">>, <<",">>, w_A, w_sf }

\* A test of pretty_format_type starts: the tokens are any sequence of at most
\* MaxTokens tokens.
InitPretty ==
    /\ ProgramIdle
    /\ \E words \in SeqsUpTo(PrettyWords, MaxTokens) :
          unit = [fn |-> "pretty_format_type", tokens |-> Tokenize(words),
                  k |-> 0, st |-> PrettyStart, returned |-> FALSE,
                  pretty |-> <<>>]

\* One iteration of `for token in tokens`.
FormatToken ==
    /\ unit.fn = "pretty_format_type"
    /\ unit.k < Len(unit.tokens)
    /\ unit' = [unit EXCEPT !.k = @ + 1,
                            !.st = PrettyToken(@, unit.tokens[unit.k + 1].str)]
    /\ UNCHANGED program_vars

\* The end of pretty_format_type.
FormatReturn ==
    /\ unit.fn = "pretty_format_type"
    /\ unit.k = Len(unit.tokens)
    /\ ~unit.returned
    /\ unit' = [unit EXCEPT !.returned = TRUE, !.pretty = PrettyFinish(unit.st)]
    /\ UNCHANGED program_vars

NextPretty == FormatToken \/ FormatReturn

SpecPretty == InitPretty /\ [][NextPretty]_vars

\* The words a field of a struct of the tests of get_type_diff is made of.
FieldWords == { w_A, w_B, w_sf }

\* The tokens of `A { <field> ; ... }`, one field for each word of `fields`.
StructType(fields) ==
    Tokenize(<< w_A, <<"{">> >>
             \o Flatten([k \in 1..Len(fields) |-> << fields[k], <<";">> >>])
             \o << <<"}">> >>)

\* A test of get_type_diff starts: the two types are structs of at most
\* MaxFields fields each.
InitDiff ==
    /\ ProgramIdle
    /\ \E fields, other_fields \in SeqsUpTo(FieldWords, MaxFields) :
          unit = [fn |-> "get_type_diff",
                  fields |-> fields, other_fields |-> other_fields,
                  tokens |-> StructType(fields),
                  other_tokens |-> StructType(other_fields),
                  pc |-> "format", pretty |-> <<>>, other_pretty |-> <<>>,
                  diff |-> <<>>]

\* let pretty = ...; let other_pretty = ...;
DiffFormat ==
    /\ unit.fn = "get_type_diff"
    /\ unit.pc = "format"
    /\ unit' = [unit EXCEPT !.pc = "unified",
                            !.pretty = pretty_format_type(unit.tokens),
                            !.other_pretty = pretty_format_type(unit.other_tokens)]
    /\ UNCHANGED program_vars

\* crate::diff::unified(&pretty, &other_pretty)
DiffUnified ==
    /\ unit.fn = "get_type_diff"
    /\ unit.pc = "unified"
    /\ unit' = [unit EXCEPT !.pc = "returned",
                            !.diff = unified(unit.pretty, unit.other_pretty)]
    /\ UNCHANGED program_vars

NextDiff == DiffFormat \/ DiffUnified

SpecDiff == InitDiff /\ [][NextDiff]_vars

\* The names and the token sequences a test of merge_type interns.
MergeNames == { w_sf, w_ba }

MergeTokens ==
    { <<>>, Tokenize(<<w_A>>), Tokenize(<<w_B>>), Tokenize(<<w_A, w_sf>>) }

\* A test of merge_type starts on an empty Types map.
InitMerge ==
    /\ ProgramIdle
    /\ unit = [fn |-> "merge_type", calls |-> 0, types |-> EmptyMap,
               before |-> EmptyMap, name |-> <<>>, tokens |-> <<>>, idx |-> 0]

\* One call of merge_type; `before` keeps the map the call was made on.
MergeType ==
    /\ unit.fn = "merge_type"
    /\ unit.calls < MaxMerges
    /\ \E name \in MergeNames, tokens \in MergeTokens :
          LET m == merge_type(unit.types, name, tokens)
          IN unit' = [fn |-> "merge_type", calls |-> unit.calls + 1,
                      types |-> m.types, before |-> unit.types,
                      name |-> name, tokens |-> tokens, idx |-> m.idx]
    /\ UNCHANGED program_vars

NextMerge == MergeType

SpecMerge == InitMerge /\ [][NextMerge]_vars

(***************************************************************************)
(* Notions the properties are stated with.                                 *)
(***************************************************************************)

\* The program index k is a valid index of the sequence s.
ValidIndex(k, s) == k >= 0 /\ k < Len(s)

\* The TypeRef names of a token sequence.
TypeRefsOf(tokens) ==
    {tokens[k].str : k \in {j \in 1..Len(tokens) : tokens[j].kind = "TypeRef"}}

\* The token sequence that the name n designates in the file f of corp.
TokensIn(corp, f, n) == corp.types[n][f.records[n] + 1]

\* The names reached from the exports of f by following TypeRefs through the
\* records of f.
RECURSIVE ReachClosure(_, _, _)
ReachClosure(corp, f, S) ==
    LET more == UNION {TypeRefsOf(TokensIn(corp, f, n)) :
                          n \in {m \in S : m \in DOMAIN f.records}}
    IN IF more \subseteq S THEN S ELSE ReachClosure(corp, f, S \cup more)

ReachableNames(corp, f) ==
    ReachClosure(corp, f, {n \in DOMAIN f.records : is_export(n)})

\* A load_multiple call of the current corpus has returned Ok.
LoadReturned == load_result = "Ok"

\* ... and every worker of the load returned Ok.
LoadSucceeded ==
    LoadReturned /\ \A w \in 1..num_workers : workers[w].result = "Ok"

\* The input files are single-file symtypes (no F# line) that can be read.
IsSingleFile(f) ==
    /\ ~f.ioerr
    /\ \A k \in 1..Len(f.lines) : ~starts_with_F(f.lines[k])

IsConsolidated(f) ==
    /\ ~f.ioerr
    /\ \E k \in 1..Len(f.lines) : starts_with_F(f.lines[k])

\* No two records of the file give one name two different definitions.
NoConflictingDefinitions(f) ==
    \A i, j \in 1..Len(f.lines) :
        LET wi == split_ascii_whitespace(f.lines[i])
            wj == split_ascii_whitespace(f.lines[j])
        IN (wi # <<>> /\ wj # <<>> /\ wi[1] = wj[1]) => wi = wj

HasChar(word, c) == \E k \in 1..Len(word) : word[k] = c

\* The names and paths that the consolidated format can carry: '@' separates
\* a name from its variant, "F#" opens a file record, blanks separate words.
FormatCanCarry(corp) ==
    /\ \A n \in DOMAIN corp.types : ~HasChar(n, "@") /\ ~starts_with_F(n)
    /\ \A k \in 1..Len(corp.files) :
          \A c \in AsciiWhitespace : ~HasChar(corp.files[k].path, c)

(***************************************************************************)
(* C1..C10                                                                 *)
(***************************************************************************)

\* C1: round trip.  When a single-file input without conflicting definitions was
\* loaded and written, and the written file was loaded into a fresh corpus and
\* written again, the second output equals the first line for line.
C1_RoundTrip ==
    ( /\ kind = "output"
      /\ phase = "written"
      /\ Len(prev.symfiles) = 1
      /\ IsSingleFile(prev.symfiles[1])
      /\ NoConflictingDefinitions(prev.symfiles[1]) )
    => out.lines = prev.out.lines

\* The k-th file of the reloaded corpus against the k-th file, in path order, of
\* the corpus that was written: same path, and every name of `names` resolves
\* to the same tokens.
SameFileTypes(orig, f, reloaded, g, names) ==
    /\ g.path = f.path
    /\ \A n \in names :
          /\ n \in DOMAIN g.records
          /\ n \in DOMAIN reloaded.types
          /\ ValidIndex(g.records[n], reloaded.types[n])
          /\ TokensIn(reloaded, g, n) = TokensIn(orig, f, n)

\* C2 (as stated, for a written corpus of at least one file whose names and
\* paths the format can carry): the corpus loaded from the consolidated output has one file
\* record per file of the written corpus, with the same path, and every name of
\* the original file record is in the reloaded one with the same tokens.
C2_EveryNameEncoded ==
    (kind = "output" /\ LoadReturned /\ Len(prev.corpus.files) > 0
        /\ FormatCanCarry(prev.corpus))
    => LET orig == prev.corpus
           order == SortFileIndices(orig.files, 0..(Len(orig.files) - 1))
       IN /\ Len(corpus.files) = Len(orig.files)
          /\ \A k \in 1..Len(orig.files) :
                k <= Len(corpus.files)
                /\ SameFileTypes(orig, orig.files[order[k] + 1],
                                 corpus, corpus.files[k],
                                 DOMAIN orig.files[order[k] + 1].records)

\* C2 (amended): for a written corpus of at least one file whose names and paths
\* the format can carry, the corpus loaded from the output has one file record
\* per original file, with the same path, and every name reached from the
\* exports of the original file is in the reloaded record with the same tokens.
C2_ReachableNamesEncoded ==
    (kind = "output" /\ LoadReturned /\ Len(prev.corpus.files) > 0
        /\ FormatCanCarry(prev.corpus))
    => LET orig == prev.corpus
           order == SortFileIndices(orig.files, 0..(Len(orig.files) - 1))
       IN /\ Len(corpus.files) = Len(orig.files)
          /\ \A k \in 1..Len(orig.files) :
                SameFileTypes(orig, orig.files[order[k] + 1],
                              corpus, corpus.files[k],
                              ReachableNames(orig, orig.files[order[k] + 1]))

\* C2 witness: an output written from several files has been loaded back, and
\* a file record of it holds the second variant of one type (named on the F#
\* record) and a type with a single variant (left implicit).
C2_Witness ==
    /\ kind = "output" /\ LoadReturned
    /\ FormatCanCarry(prev.corpus)
    /\ Len(corpus.files) >= 2
    /\ \E k \in 1..Len(corpus.files) :
          \E n, m \in DOMAIN corpus.files[k].records :
              /\ ~is_export(n) /\ corpus.files[k].records[n] = 1
              /\ ~is_export(m) /\ Len(corpus.types[m]) = 1

NoEqualVariants(variants) ==
    \A i, j \in 1..Len(variants) :
        i # j => ~are_tokens_eq(variants[i], variants[j])

\* C3: at every moment of every load, with any number of workers, no name has
\* two elementwise equal variants, in the load context and in the corpus.
C3_NoEqualVariants ==
    /\ \A n \in DOMAIN ctx.types : NoEqualVariants(ctx.types[n])
    /\ \A n \in DOMAIN corpus.types : NoEqualVariants(corpus.types[n])

\* C3 witness: two workers loaded files that declare one name equally (the files
\* share the variant) and differently (the name has two variants).
C3_Witness ==
    /\ LoadReturned /\ num_workers >= 2
    /\ \E n \in DOMAIN corpus.types :
          /\ Len(corpus.types[n]) = 2
          /\ \E i, j \in 1..Len(corpus.files) :
                /\ i # j
                /\ n \in DOMAIN corpus.files[i].records
                /\ n \in DOMAIN corpus.files[j].records
                /\ corpus.files[i].records[n] = corpus.files[j].records[n]

\* The two lists hold the same files.
SameFiles(a, b) ==
    /\ Len(a) = Len(b)
    /\ {a[k] : k \in 1..Len(a)} = {b[k] : k \in 1..Len(b)}

\* C4: two loads of the same set of input files, in any order of the files and
\* with any number and interleaving of workers, give the same consolidated
\* output.
C4_OutputIndependentOfLoadOrder ==
    ( /\ phase = "written"
      /\ kind = "again"
      /\ prev.out.ok
      /\ SameFiles(symfiles, prev.symfiles) )
    => out.lines = prev.out.lines

\* s is a prefix of t.
IsPrefix(s, t) == Len(s) <= Len(t) /\ \A k \in 1..Len(s) : s[k] = t[k]

\* C5: a further load of symtypes files into a corpus keeps what the load before
\* it put there: the file records, every type variant at its index and every
\* export.
C5_LoadKeepsEarlierLoad ==
    (kind = "again" /\ LoadSucceeded)
    => /\ IsPrefix(prev.corpus.files, corpus.files)
       /\ \A n \in DOMAIN prev.corpus.types :
             n \in DOMAIN corpus.types
             /\ IsPrefix(prev.corpus.types[n], corpus.types[n])
       /\ DOMAIN prev.corpus.exports \subseteq DOMAIN corpus.exports

\* C6: a load in which some worker failed with an I/O or parse error does not
\* return Ok.
C6_WorkerErrorFailsLoad ==
    LoadReturned => \A w \in 1..num_workers : workers[w].result = "Ok"

\* C7: after a load in which no worker failed, every export's index is the position in Files of a file
\* whose record contains the export.
C7_ExportIndexIsItsFile ==
    LoadSucceeded
    => \A e \in DOMAIN corpus.exports :
          /\ ValidIndex(corpus.exports[e], corpus.files)
          /\ e \in DOMAIN corpus.files[corpus.exports[e] + 1].records

\* Every TypeRef of the declarations that the records of f select is itself in
\* the records of f, with a valid variant index.
RecordsClosed(corp, f) ==
    \A n \in DOMAIN f.records :
        /\ n \in DOMAIN corp.types
        /\ ValidIndex(f.records[n], corp.types[n])
        /\ \A r \in TypeRefsOf(TokensIn(corp, f, n)) :
              /\ r \in DOMAIN f.records
              /\ r \in DOMAIN corp.types
              /\ ValidIndex(f.records[r], corp.types[r])

\* C8: after a successful load every TypeRef of every file resolves through the
\* file's records, and write_consolidated does not reach its panics.
C8_TypeRefsResolve ==
    /\ LoadSucceeded
          => \A k \in 1..Len(corpus.files) : RecordsClosed(corpus, corpus.files[k])
    /\ (LoadSucceeded /\ phase \in {"written", "panicked"}) => out.ok

\* C9: after a load of consolidated inputs, every TypeRef reachable from the
\* declarations of a file record is in that file record.
C9_FileRecordsClosed ==
    (LoadSucceeded /\ \A k \in 1..Len(symfiles) : IsConsolidated(symfiles[k]))
    => \A k \in 1..Len(corpus.files) :
          \A n \in DOMAIN corpus.files[k].records :
              \A r \in TypeRefsOf(TokensIn(corpus, corpus.files[k], n)) :
                  r \in DOMAIN corpus.files[k].records

\* C10: a load in which the expansion of an F# record met an implicitly
\* referenced type with two or more variants does not return Ok.
C10_MultiVariantImplicitFailsLoad ==
    LoadReturned => \A w \in 1..num_workers : ~workers[w].multi_variant_err

(***************************************************************************)
(* C11..C13: the consolidated writer.                                      *)
(***************************************************************************)

\* The files of corp in the order in which write_consolidated processes them
\* (0-based indices into Files).
ProcessingOrder(corp) == SortFileIndices(corp.files, 0..(Len(corp.files) - 1))

\* The file f reaches the name n from its exports.
Reaches(corp, f, n) == n \in ReachableNames(corp, f) /\ n \in DOMAIN f.records

\* The variants of n that some file reaches from its exports.
ReachedVariants(corp, n) ==
    {corp.files[k].records[n] :
        k \in {j \in 1..Len(corp.files) : Reaches(corp, corp.files[j], n)}}

\* The names that some file reaches from its exports.
ReachedNames(corp) ==
    UNION {{n \in DOMAIN corp.files[k].records : Reaches(corp, corp.files[k], n)} :
              k \in 1..Len(corp.files)}

\* The position, in processing order, of the first file that reaches the
\* variant v of n.
FirstSeenAt(corp, n, v) ==
    LET order == ProcessingOrder(corp)
        at == {k \in 1..Len(order) :
                  /\ Reaches(corp, corp.files[order[k] + 1], n)
                  /\ corp.files[order[k] + 1].records[n] = v}
    IN CHOOSE k \in at : \A j \in at : k <= j

\* The number of variants of n seen before v in processing order: the output
\* index that first-seen order gives to v.
FirstSeenIndex(corp, n, v) ==
    Cardinality({u \in ReachedVariants(corp, n) :
                    FirstSeenAt(corp, n, u) < FirstSeenAt(corp, n, v)})

\* The line by which the variant v of n is to be emitted.
ExpectedTypeLine(corp, n, v) ==
    (IF Cardinality(ReachedVariants(corp, n)) > 1
     THEN n \o <<"@">> \o Digits(FirstSeenIndex(corp, n, v))
     ELSE n)
    \o TokensText(corp.types[n][v + 1])

NotFileRecord(line) == ~starts_with_F(line)

\* The type records of an output: the lines that are not F# records.
TypeRecords(lines) == SelectSeq(lines, NotFileRecord)

\* C11: in a written output every (name, tokens) pair that some file reaches
\* from its exports is one line and there is no other type record; the line is
\* headed by the bare name when the name has one output variant and by name@k
\* otherwise, k being the first-seen index over the files in path order; the
\* lines name@0, name@1, ... of a name follow each other in ascending order.
C11_EachVariantOnceFirstSeen ==
    phase = "written"
    => LET tr == TypeRecords(out.lines)
           reached == UNION {{<<n, v>> : v \in ReachedVariants(corpus, n)} :
                                n \in ReachedNames(corpus)}
       IN /\ Len(tr) = Cardinality(reached)
          /\ \A p \in reached :
                \E i \in 1..Len(tr) : tr[i] = ExpectedTypeLine(corpus, p[1], p[2])
          /\ \A i, j \in 1..Len(tr) : i # j => tr[i] # tr[j]
          /\ \A p, q \in reached :
                (p[1] = q[1] /\ FirstSeenIndex(corpus, p[1], q[2])
                                  = FirstSeenIndex(corpus, p[1], p[2]) + 1)
                => \E i \in 1..(Len(tr) - 1) :
                      /\ tr[i] = ExpectedTypeLine(corpus, p[1], p[2])
                      /\ tr[i + 1] = ExpectedTypeLine(corpus, q[1], q[2])

\* C11 witness: an output written from two files that reach one declaration both
\* (emitted once, bare) and two declarations of another name (emitted as @0 and
\* @1), the internal index of a variant differing from its output index.
C11_Witness ==
    /\ phase = "written"
    /\ \E n, m \in ReachedNames(corpus) :
          /\ Cardinality(ReachedVariants(corpus, n)) = 2
          /\ \E v \in ReachedVariants(corpus, n) : FirstSeenIndex(corpus, n, v) # v
          /\ Cardinality(ReachedVariants(corpus, m)) = 1
          /\ \E i, j \in 1..Len(corpus.files) :
                /\ i # j
                /\ Reaches(corpus, corpus.files[i], m)
                /\ Reaches(corpus, corpus.files[j], m)

\* The F# records of an output, in the order written.
FileRecords(lines) == SelectSeq(lines, starts_with_F)

\* The words that follow "F#<path>" on the F# record of the file f.
FileRecordItems(line, f) ==
    split_ascii_whitespace(SubSeq(line, 3 + Len(f.path), Len(line)))

\* What the F# record of f is to list.
ExpectedFileRecordItems(corp, f) ==
    {n \in DOMAIN f.records :
        is_export(n) /\ Cardinality(ReachedVariants(corp, n)) = 1}
    \cup
    {n \o <<"@">> \o Digits(FirstSeenIndex(corp, n, f.records[n])) :
        n \in {m \in DOMAIN f.records :
                  /\ Reaches(corp, f, m)
                  /\ Cardinality(ReachedVariants(corp, m)) > 1}}

\* C12: in a written output the k-th F# record is that of the k-th file in
\* processing order, and its items are, each once: the exports of the file that
\* have one output variant, bare, and the names reached from the exports that
\* have several output variants, as name@k with k the output index of the
\* file's variant.  A reached non-export name with one output variant is not
\* listed.
C12_FileRecordLists ==
    phase = "written"
    => LET fr == FileRecords(out.lines)
           order == ProcessingOrder(corpus)
       IN /\ Len(fr) = Len(corpus.files)
          /\ \A k \in 1..Len(order) :
                LET f == corpus.files[order[k] + 1]
                    items == FileRecordItems(fr[k], f)
                    expected == ExpectedFileRecordItems(corpus, f)
                IN /\ IsPrefix(<<"F", "#">> \o f.path, fr[k])
                   /\ {items[i] : i \in 1..Len(items)} = expected
                   /\ Len(items) = Cardinality(expected)
                   /\ \A n \in DOMAIN f.records :
                         (/\ Reaches(corpus, f, n) /\ ~is_export(n)
                          /\ Cardinality(ReachedVariants(corpus, n)) = 1)
                         => \A i \in 1..Len(items) : SplitVariant(items[i]).name # n

\* C12 witness: a written F# record lists a bare export and a name@k, and
\* leaves out a non-export name that its file reaches and that has one output
\* variant.
C12_Witness ==
    /\ phase = "written"
    /\ \E k \in 1..Len(corpus.files) :
          LET f == corpus.files[k] IN
          \E e, n, m \in DOMAIN f.records :
              /\ is_export(e) /\ Cardinality(ReachedVariants(corpus, e)) = 1
              /\ Reaches(corpus, f, n)
              /\ Cardinality(ReachedVariants(corpus, n)) = 2
              /\ FirstSeenIndex(corpus, n, f.records[n]) = 1
              /\ Reaches(corpus, f, m) /\ ~is_export(m)
              /\ Cardinality(ReachedVariants(corpus, m)) = 1

\* The name of the type record `line` of an output written from corp.
RecordName(corp, line) ==
    CHOOSE n \in ReachedNames(corp) :
        \E v \in ReachedVariants(corp, n) : line = ExpectedTypeLine(corp, n, v)

\* The path written on an F# record (a path without blanks).
FileRecordPath(line) ==
    LET w == split_ascii_whitespace(line)[1] IN SubSeq(w, 3, Len(w))

\* The name that an item of the F# record of f stands for.
ItemName(corp, f, item) ==
    CHOOSE n \in DOMAIN f.records :
        \/ item = n
        \/ item = n \o <<"@">> \o Digits(FirstSeenIndex(corp, n, f.records[n]))

\* Non-exports before exports, and ascending bytes of the name in each group.
NamesInOrder(a, b) ==
    /\ is_export(a) => is_export(b)
    /\ (is_export(a) = is_export(b)) => (a = b \/ StrLess(a, b))

\* The order of the type records and of the items of each F# record.
RecordsAndItemsOrdered ==
    LET tr == TypeRecords(out.lines)
        fr == FileRecords(out.lines)
        order == ProcessingOrder(corpus)
    IN /\ \A i \in 1..(Len(tr) - 1) :
             NamesInOrder(RecordName(corpus, tr[i]), RecordName(corpus, tr[i + 1]))
       /\ \A k \in 1..Len(fr) :
             LET f == corpus.files[order[k] + 1]
                 items == FileRecordItems(fr[k], f)
             IN /\ FileRecordPath(fr[k]) = f.path
                /\ \A i \in 1..(Len(items) - 1) :
                      /\ ItemName(corpus, f, items[i]) # ItemName(corpus, f, items[i + 1])
                      /\ NamesInOrder(ItemName(corpus, f, items[i]),
                                      ItemName(corpus, f, items[i + 1]))

\* The type records all come before the F# records.
TypeRecordsFirst ==
    \A i, j \in 1..Len(out.lines) :
        (starts_with_F(out.lines[i]) /\ ~starts_with_F(out.lines[j])) => j < i

\* C13 (as stated): in a written output the non-export type records come before the
\* export records, each group in ascending order of the name; the items of an
\* F# record are in the order (is_export, name); the F# records are in
\* ascending order of the bytes of the path text.
C13_FileRecordsByPathText ==
    phase = "written"
    => /\ TypeRecordsFirst
       /\ RecordsAndItemsOrdered
       /\ LET fr == FileRecords(out.lines)
          IN \A k \in 1..(Len(fr) - 1) :
                ~StrLess(FileRecordPath(fr[k + 1]), FileRecordPath(fr[k]))

\* C13 (amended): as above, the F# records being in ascending order of the
\* paths compared component by component (the components are the parts
\* between '/', each compared by its bytes), which is the order in which the
\* files were processed.
C13_FileRecordsByPathComponents ==
    phase = "written"
    => /\ TypeRecordsFirst
       /\ RecordsAndItemsOrdered
       /\ LET fr == FileRecords(out.lines)
          IN \A k \in 1..(Len(fr) - 1) :
                ~CompsLess(PathComponents(FileRecordPath(fr[k + 1])),
                           PathComponents(FileRecordPath(fr[k])))

\* C13 witness: a written output with non-export and export type records, an
\* F# record of two items, and two F# records whose paths the two orders put
\* differently.
C13_Witness ==
    /\ phase = "written"
    /\ LET tr == TypeRecords(out.lines)
           fr == FileRecords(out.lines)
       IN /\ \E i, j \in 1..Len(tr) :
                /\ ~is_export(RecordName(corpus, tr[i]))
                /\ is_export(RecordName(corpus, tr[j]))
          /\ \E k \in 1..(Len(fr) - 1) :
                /\ Len(split_ascii_whitespace(fr[k])) >= 3
                /\ StrLess(FileRecordPath(fr[k + 1]), FileRecordPath(fr[k]))

(***************************************************************************)
(* C14..C17: the comparator.                                               *)
(***************************************************************************)

\* compare_with has been called and has ended, by returning or by a panic.
CompareEnded == phase \in {"compared", "compare_panicked"}

CompareRunning == phase = "comparing"

\* The number of lines of the standard output that equal `line`.
Occurrences(line) ==
    Cardinality({k \in 1..Len(cmp.stdout) : cmp.stdout[k] = line})

\* C14: while and after a corpus is compared with itself, nothing is printed,
\* no change is recorded and no walk has a change to record.
C14_SelfCompareReportsNothing ==
    ((CompareRunning \/ CompareEnded) /\ cmp.a = cmp.b)
    => /\ cmp.stdout = <<>>
       /\ cmp.changes = EmptyMap
       /\ \A w \in 1..cmp.num_workers : cmp.workers[w].calls = <<>>

\* C14 witness: two workers have compared with itself a corpus of two files
\* and two exports in which a name has two variants, and compare_with has
\* returned.
C14_Witness ==
    /\ phase = "compared"
    /\ cmp.a = cmp.b
    /\ cmp.num_workers = 2
    /\ Len(cmp.a.files) >= 2
    /\ Cardinality(DOMAIN cmp.a.exports) >= 2
    /\ \E n \in DOMAIN cmp.a.types : Len(cmp.a.types[n]) = 2

\* Every export of corp is indexed to a file of corp.
ExportsInFiles(corp) ==
    \A e \in DOMAIN corp.exports : ValidIndex(corp.exports[e], corp.files)

\* C15: when compare_with has ended on two corpora whose exports are indexed
\* to their files, with any number of workers, its output
\* holds one line "present in A but not in B" for every export that only self
\* has, one line "present in B but not in A" for every export that only other
\* has, and no such line for any other name.
C15_OneLinePerMissingExport ==
    (CompareEnded /\ ExportsInFiles(cmp.a) /\ ExportsInFiles(cmp.b))
    => LET A == DOMAIN cmp.a.exports
           B == DOMAIN cmp.b.exports
       IN \A n \in A \cup B :
             /\ Occurrences(PresentInANotB(n)) = (IF n \in A \ B THEN 1 ELSE 0)
             /\ Occurrences(PresentInBNotA(n)) = (IF n \in B \ A THEN 1 ELSE 0)

\* No element occurs twice in the sequence.
NoRepeat(q) == \A i, j \in 1..Len(q) : i # j => q[i] # q[j]

\* The names visited by consolidate_type in the walks of each file of corp.
ConsolidateVisits(corp) ==
    ConsolidateFiles(corp, ProcessingOrder(corp), 1,
        [ot |-> EmptyMap, ft |-> EmptyMap, fv |-> EmptyMap, ok |-> TRUE]).fv

VisitsEachNameOnce(corp) ==
    LET fv == ConsolidateVisits(corp) IN \A i \in DOMAIN fv : NoRepeat(fv[i])

\* The name n refers to itself in the file f of corp.
RefersToItself(corp, f, n) ==
    /\ n \in DOMAIN f.records
    /\ n \in DOMAIN corp.types
    /\ n \in TypeRefsOf(TokensIn(corp, f, n))

\* C16: the walk of compare_types for one export visits no name twice and makes
\* at most one record_type_change call per name; the walks of consolidate_type
\* for one written file visit no name twice; also when a type refers to itself.
C16_WalksVisitNamesOnce ==
    /\ (CompareRunning \/ CompareEnded)
          => \A w \in 1..cmp.num_workers :
                /\ NoRepeat(cmp.workers[w].visits)
                /\ NoRepeat([k \in 1..Len(cmp.workers[w].calls) |->
                                cmp.workers[w].calls[k][1]])
    /\ phase = "written" => VisitsEachNameOnce(corpus)

\* C16 witness: a corpus in which s#f refers to itself was written before the
\* last load (the walk of consolidate_type visited s#f), and a walk of
\* compare_types from an export of it has visited s#f and has a change of s#f
\* to record.
C16_Witness ==
    /\ CompareRunning
    /\ prev.out.ok
    /\ cmp.a = prev.corpus
    /\ \E w \in 1..cmp.num_workers :
          \E k \in 1..Len(cmp.workers[w].visits) :
              LET n == cmp.workers[w].visits[k]
              IN /\ RefersToItself(cmp.a, cmp.a.files[1], n)
                 /\ \E c \in 1..Len(cmp.workers[w].calls) :
                       cmp.workers[w].calls[c][1] = n
                 /\ \E i \in DOMAIN ConsolidateVisits(cmp.a) :
                       \E j \in 1..Len(ConsolidateVisits(cmp.a)[i]) :
                           ConsolidateVisits(cmp.a)[i][j] = n

\* C17: when compare_with has returned from a second run on the same two
\* corpora, with any number of workers, it has printed the same lines in the
\* same order as the first run.
C17_SameOutputOnEveryRun ==
    (phase = "compared" /\ cmp.rerun) => cmp.stdout = cmp.before

(***************************************************************************)
(* C18..C20: errors of the reader.                                         *)
(***************************************************************************)

\* The head word of the line number l (1-based) of f; <<>> for a blank line.
HeadWord(f, l) ==
    LET words == split_ascii_whitespace(f.lines[l])
    IN IF words = <<>> THEN <<>> ELSE words[1]

\* The record name that a head word stands for: the file name of an F# record
\* as written, the base name of a type record.
RecordKey(word) == IF starts_with_F(word) THEN word ELSE SplitVariant(word).name

\* The lines of f whose record name an earlier line of f has: type records in
\* a single-file input, F# records in a consolidated one.
DuplicateLines(f) ==
    {l \in 1..Len(f.lines) :
        /\ HeadWord(f, l) # <<>>
        /\ starts_with_F(HeadWord(f, l)) = IsConsolidated(f)
        /\ \E e \in 1..(l - 1) : /\ HeadWord(f, e) # <<>>
                                 /\ RecordKey(HeadWord(f, e)) = RecordKey(HeadWord(f, l))}

TextColon == <<":">>

TextDuplicateRecord ==
    <<" ", "D", "u", "p", "l", "i", "c", "a", "t", "e", " ", "r", "e", "c",
      "o", "r", "d", " ", "'">>

\* "<path>:<line>: Duplicate record '<name>'"
DuplicateRecordError(path, l, name) ==
    path \o TextColon \o Digits(l) \o TextColon \o TextDuplicateRecord
    \o name \o <<"'">>

\* C18: when a load has returned whose input holds a file with a duplicate
\* record name, a worker has failed with the parse error that names the path,
\* the line of the first second occurrence and the record name.
C18_DuplicateRecordRejected ==
    LoadReturned
    => \A k \in 1..Len(symfiles) :
          (~symfiles[k].ioerr /\ DuplicateLines(symfiles[k]) # {})
          => LET f == symfiles[k]
                 l == CHOOSE x \in DuplicateLines(f) :
                         \A y \in DuplicateLines(f) : x <= y
             IN \E w \in 1..num_workers :
                   /\ workers[w].result = "ErrParse"
                   /\ workers[w].error =
                         DuplicateRecordError(f.path, l, RecordKey(HeadWord(f, l)))

\* The (base name, tag) pairs that the type records of f declare.
DeclaredVariants(f) ==
    {SplitVariant(HeadWord(f, l)) :
        l \in {x \in 1..Len(f.lines) :
                  HeadWord(f, x) # <<>> /\ ~starts_with_F(HeadWord(f, x))}}

\* The positions <<line, word>> of the F# tokens of f that name a type or a
\* tag which f does not declare.
UnknownFileRecordTokens(f) ==
    {p \in (1..Len(f.lines)) \X (2..Len(f.lines) + 2) :
        /\ starts_with_F(f.lines[p[1]])
        /\ p[2] <= Len(split_ascii_whitespace(f.lines[p[1]]))
        /\ SplitVariant(split_ascii_whitespace(f.lines[p[1]])[p[2]])
              \notin DeclaredVariants(f)}

\* "<path>:<line>: Type <tok> is not known"
TypeIsNotKnownError(path, l, tok) ==
    path \o TextColon \o Digits(l) \o TextColon \o <<" ">> \o TextType \o tok
    \o TextIsNotKnown

\* C19: when a load has returned whose input holds a consolidated file with an
\* F# token of unknown base name or undeclared tag, a worker has failed with
\* the parse error that names the path, the line of the (first) F# record with
\* such a token and the token as written.
C19_UnknownFileRecordTokenRejected ==
    LoadReturned
    => \A k \in 1..Len(symfiles) :
          (~symfiles[k].ioerr /\ UnknownFileRecordTokens(symfiles[k]) # {})
          => LET f == symfiles[k]
                 U == UnknownFileRecordTokens(f)
                 p == CHOOSE x \in U :
                         \A y \in U : \/ x[1] < y[1]
                                      \/ x[1] = y[1] /\ x[2] <= y[2]
             IN \E w \in 1..num_workers :
                   /\ workers[w].result = "ErrParse"
                   /\ workers[w].error =
                         TypeIsNotKnownError(f.path, p[1],
                             split_ascii_whitespace(f.lines[p[1]])[p[2]])

\* The lines of the single-file input f whose head name carries an @<tag>.
TaggedHeadLines(f) ==
    {l \in 1..Len(f.lines) : HasChar(HeadWord(f, l), "@")}

\* C20: when a load has returned whose input holds a single-file symtypes file
\* with a record whose head name carries an @<tag>, a worker has failed with a
\* parse error and the corpus has no file record of that path with the base
\* name.
C20_TagInSingleFileRejected ==
    LoadReturned
    => \A k \in 1..Len(symfiles) :
          (IsSingleFile(symfiles[k]) /\ TaggedHeadLines(symfiles[k]) # {})
          => /\ \E w \in 1..num_workers : workers[w].result = "ErrParse"
             /\ \A l \in TaggedHeadLines(symfiles[k]) :
                   \A i \in 1..Len(corpus.files) :
                       corpus.files[i].path = symfiles[k].path
                       => SplitVariant(HeadWord(symfiles[k], l)).name
                             \notin DOMAIN corpus.files[i].records

(***************************************************************************)
(* C21, C22: lines without a record.                                       *)
(***************************************************************************)

\* The numbers (1-based) of the lines of f that hold no word and lie between
\* two lines that hold a record.
EmptyLinesBetweenRecords(f) ==
    {l \in 2..(Len(f.lines) - 1) :
        /\ HeadWord(f, l) = <<>>
        /\ HeadWord(f, l - 1) # <<>>
        /\ HeadWord(f, l + 1) # <<>>}

\* "<path>:<line>: Expected a record name"
ExpectedARecordNameError(path, l) ==
    path \o TextColon \o Digits(l) \o TextColon \o <<" ">>
    \o TextExpectedARecordName

\* C21: when a load has returned whose input holds a file with an empty line
\* between two records, a worker has failed with the parse error that names
\* the path and the number of the (first) empty line.
C21_EmptyRecordRejected ==
    LoadReturned
    => \A k \in 1..Len(symfiles) :
          (~symfiles[k].ioerr /\ EmptyLinesBetweenRecords(symfiles[k]) # {})
          => LET f == symfiles[k]
                 l == CHOOSE x \in EmptyLinesBetweenRecords(f) :
                         \A y \in EmptyLinesBetweenRecords(f) : x <= y
             IN \E w \in 1..num_workers :
                   /\ workers[w].result = "ErrParse"
                   /\ workers[w].error = ExpectedARecordNameError(f.path, l)

\* The stream of f with the lines that hold no word left out.
WithoutBlankLines(f) ==
    [f EXCEPT !.lines = SelectSeq(@, LAMBDA line :
                                        split_ascii_whitespace(line) # <<>>)]

HasBlankLine(f) == WithoutBlankLines(f) # f

\* The current load read one stream with blank lines, and the load before it
\* read the same stream without them.
LoadedWithAndWithoutBlankLines ==
    /\ LoadReturned
    /\ loads > 1
    /\ Len(symfiles) = 1
    /\ ~symfiles[1].ioerr
    /\ HasBlankLine(symfiles[1])
    /\ prev.symfiles = <<WithoutBlankLines(symfiles[1])>>

CountWord(tokens, j, word) ==
    Cardinality({i \in 1..j : tokens[i].str = word})

\* The brackets of `tokens` are balanced: no prefix closes more than it opens,
\* and the whole sequence closes all it opens.
Balanced(tokens) ==
    /\ \A j \in 1..Len(tokens) :
          CountWord(tokens, j, <<"}">>) <= CountWord(tokens, j, <<"{">>)
    /\ CountWord(tokens, Len(tokens), <<"}">>)
          = CountWord(tokens, Len(tokens), <<"{">>)

\* C23: while pretty_format_type runs, on any token sequence, the indentation
\* level is a number from 0 up to the number of tokens read (no step takes it
\* below 0, which would be the one failure of the printer); once the last
\* token of a sequence with balanced brackets is read, the level is 0.
C23_IndentNeverBelowZero ==
    unit.fn = "pretty_format_type"
    => /\ unit.st.indent \in 0..unit.k
       /\ (unit.k = Len(unit.tokens) /\ Balanced(unit.tokens))
          => unit.st.indent = 0

\* The printer has returned from a sequence that closes more brackets than it
\* opens, and opens one at least.
C23_Witness ==
    /\ unit.fn = "pretty_format_type"
    /\ unit.returned
    /\ CountWord(unit.tokens, Len(unit.tokens), <<"{">>) >= 1
    /\ CountWord(unit.tokens, Len(unit.tokens), <<"}">>)
          > CountWord(unit.tokens, Len(unit.tokens), <<"{">>)
    /\ unit.st.indent = 0

\* The characters of `chars` that are neither a space nor a tab.
Unspaced(chars) == SelectSeq(chars, LAMBDA c : c \notin AsciiWhitespace)

Tabs(n) == [k \in 1..n |-> "\t"]

\* What the claim says a token does to the locals st of the printer, giving
\* st2.
TokenFormatted(st, tok, st2) ==
    LET starts_line == st.line = <<>>
    IN IF tok = <<"{">>
       THEN /\ st2.res = Append(st.res,
                            IF starts_line THEN Tabs(st.indent) \o tok
                            ELSE st.line \o <<" ">> \o tok)
            /\ st2.line = <<>>
            /\ st2.indent = st.indent + 1
       ELSE IF tok = <<"}">>
       THEN /\ st2.res = IF starts_line THEN st.res ELSE Append(st.res, st.line)
            /\ st2.indent = IF st.indent = 0 THEN 0 ELSE st.indent - 1
            /\ st2.line = Tabs(st2.indent) \o tok
       ELSE IF tok \in {<<";">>, <<",">>}
       THEN /\ st2.res = Append(st.res,
                            IF starts_line THEN Tabs(st.indent) \o tok
                            ELSE st.line \o tok)
            /\ st2.line = <<>>
            /\ st2.indent = st.indent
       ELSE /\ st2.res = st.res
            /\ st2.line = IF starts_line THEN Tabs(st.indent) \o tok
                          ELSE st.line \o <<" ">> \o tok
            /\ st2.indent = st.indent

\* The lines returned hold the tokens, each once and in order, and nothing
\* else but spaces and tabs; the last line is the one left unfinished, if any.
TokensKept ==
    (unit.fn = "pretty_format_type" /\ unit.returned)
    => /\ Unspaced(Flatten(unit.pretty))
             = Flatten([k \in 1..Len(unit.tokens) |-> unit.tokens[k].str])
       /\ unit.pretty = IF unit.st.line = <<>> THEN unit.st.res
                        ELSE Append(unit.st.res, unit.st.line)

\* C28: every step of pretty_format_type on a token does what the claim says
\* of the token ('{' ends the line and indents, '}' closes the line, takes
\* one level off and starts a line, ';' and ',' end the line without a space,
\* any other token goes after a space or after the tabs of a new line), and
\* the lines returned hold every token once and in order.
C28_TokensKeptAndLinesBrokenAtStructure ==
    /\ []TokensKept
    /\ [][(unit.fn = "pretty_format_type" /\ unit'.k = unit.k + 1)
           => TokenFormatted(unit.st, unit.tokens[unit.k + 1].str, unit'.st)]_vars

\* The printer has returned from a nested declaration: a line at two tabs
\* and a closing bracket at one.
C28_Witness ==
    /\ unit.fn = "pretty_format_type"
    /\ unit.returned
    /\ unit.tokens = Tokenize(<< <<"{">>, <<"{">>, w_A, <<";">>, <<"}">> >>)
    /\ unit.pretty = << <<"{">>, <<"\t", "{">>, <<"\t", "\t", "A", ";">>,
                        <<"\t", "}">> >>

(***************************************************************************)
(* C24: get_type_diff.                                                     *)
(***************************************************************************)

\* The lines of `diff` with one of the marks, the mark taken off.
Unmarked(diff, marks) ==
    LET kept == SelectSeq(diff, LAMBDA line : line[1] \in marks)
    IN [k \in 1..Len(kept) |-> Tail(kept[k])]

\* The positions of the lines of `diff` with the mark.
MarkedAt(diff, mark) == {k \in 1..Len(diff) : diff[k][1] = mark}

\* q with its element number p left out.
RemoveAt(q, p) == SubSeq(q, 1, p - 1) \o SubSeq(q, p + 1, Len(q))

\* `other` is `fields` with one field removed; with one field changed.
OneFieldRemoved(fields, other) ==
    \E p \in 1..Len(fields) : other = RemoveAt(fields, p)

OneFieldChanged(fields, other) ==
    /\ Len(fields) = Len(other)
    /\ Cardinality({p \in 1..Len(fields) : fields[p] # other[p]}) = 1

GetTypeDiffReturned == unit.fn = "get_type_diff" /\ unit.pc = "returned"

TokensDiffer(ta, tb) ==
    \/ Len(ta) # Len(tb)
    \/ \E i \in 1..Len(ta) :
          /\ i <= Len(tb)
          /\ \/ ta[i].kind # tb[i].kind
             \/ ta[i].kind = "Atom" /\ tb[i].kind = "Atom" /\ ta[i].str # tb[i].str
             \/ ta[i].kind = "TypeRef" /\ tb[i].kind = "TypeRef"
                /\ ta[i].str # tb[i].str

\* changes holds the pair (ta, tb) under the name.
ChangeRecorded(name, ta, tb) ==
    /\ name \in DOMAIN cmp.changes
    /\ \E k \in 1..Len(cmp.changes[name]) : cmp.changes[name][k] = <<ta, tb>>

\* The walk of the worker for the export wk.name has ended: it has returned
\* to the work loop with all its changes recorded, or it has panicked.
WalkEnded(wk) ==
    /\ wk.name # <<>>
    /\ wk.pc \in {"fetch", "panicked"}
    /\ wk.calls = <<>>
    /\ wk.visits # <<>>

\* The names the walk of wk has visited that have tokens on both sides, with
\* their tokens: <<name, ta, tb>>.
VisitedWithTokens(wk) ==
    LET file == cmp.a.files[cmp.a.exports[wk.name] + 1]
        other_file == cmp.b.files[cmp.b.exports[wk.name] + 1]
    IN {<<wk.visits[k], get_type_tokens(cmp.a, file, wk.visits[k]).tokens,
          get_type_tokens(cmp.b, other_file, wk.visits[k]).tokens>> :
           k \in {j \in 1..Len(wk.visits) :
                     /\ ~get_type_tokens(cmp.a, file, wk.visits[j]).panic
                     /\ ~get_type_tokens(cmp.b, other_file, wk.visits[j]).panic}}

\* C25: when the walk of a shared export has ended, every name it has visited
\* is recorded in changes with its two token sequences if and only if the
\* two differ.
C25_RecordedIffTokensDiffer ==
    phase \in {"comparing", "compared", "compare_panicked"}
    => \A w \in 1..cmp.num_workers :
          WalkEnded(cmp.workers[w])
          => \A v \in VisitedWithTokens(cmp.workers[w]) :
                ChangeRecorded(v[1], v[2], v[3]) <=> TokensDiffer(v[2], v[3])

(***************************************************************************)
(* C26: merge_type.                                                        *)
(***************************************************************************)

\* The positions (1-based) of the variants of `name` in `types` that are
\* elementwise equal to `tokens`.
EqualVariants(types, name, tokens) ==
    IF name \in DOMAIN types
    THEN {k \in 1..Len(types[name]) :
             /\ Len(types[name][k]) = Len(tokens)
             /\ \A i \in 1..Len(tokens) : types[name][k][i] = tokens[i]}
    ELSE {}

MergeTypeCalled == unit.fn = "merge_type" /\ unit.calls > 0

\* C26: a call of merge_type on (name, tokens) returns 0 and creates
\* Types[name] = [tokens] when the name is absent; returns the index of the
\* variant equal to tokens and leaves Types as it is when there is one;
\* otherwise appends tokens and returns the new last index.  Always the
\* variant at the returned index is tokens, and the variants stored before
\* the call keep their positions.
C26_MergeTypeInterns ==
    MergeTypeCalled
    => LET name == unit.name
           found == EqualVariants(unit.before, name, unit.tokens)
       IN /\ name \notin DOMAIN unit.before
             => /\ unit.idx = 0
                /\ unit.types = MapInsert(unit.before, name, <<unit.tokens>>)
          /\ (name \in DOMAIN unit.before /\ found # {})
             => /\ unit.idx + 1 \in found
                /\ unit.types = unit.before
          /\ (name \in DOMAIN unit.before /\ found = {})
             => /\ unit.idx = Len(unit.before[name])
                /\ unit.types = MapInsert(unit.before, name,
                                    Append(unit.before[name], unit.tokens))
          /\ unit.idx < Len(unit.types[name])
          /\ unit.types[name][unit.idx + 1] = unit.tokens
          /\ \A n \in DOMAIN unit.before :
                /\ n \in DOMAIN unit.types
                /\ IsPrefix(unit.before[n], unit.types[n])

\* The third call finds its tokens as the first of two variants of the name.
C26_Witness ==
    /\ MergeTypeCalled
    /\ unit.name \in DOMAIN unit.before
    /\ Len(unit.before[unit.name]) = 2
    /\ unit.idx = 0
    /\ unit.types = unit.before

(***************************************************************************)
(* C27: record_type_change.                                                *)
(***************************************************************************)

\* Every worker of compare_with has left its loop.
AllWalksEnded ==
    /\ phase \in {"comparing", "compared", "compare_panicked"}
    /\ \A w \in 1..cmp.num_workers : cmp.workers[w].pc \in {"done", "panicked"}

\* The exports whose walk a worker has run: taken from works, present in both
\* corpora, with a file on each side.
WalkedExports ==
    {e \in DOMAIN cmp.a.exports \ cmp.works :
        /\ cmp.a.exports[e] < Len(cmp.a.files)
        /\ e \in DOMAIN cmp.b.exports
        /\ cmp.b.exports[e] < Len(cmp.b.files)}

\* The record_type_change calls of the walk of the export e, as
\* <<name, ta, tb>>.
CallsOfWalk(e) ==
    LET r == compare_types(cmp.a, cmp.b, cmp.a.files[cmp.a.exports[e] + 1],
                           cmp.b.files[cmp.b.exports[e] + 1], e,
                           [processed |-> {}, visits |-> <<>>, calls |-> <<>>,
                            panic |-> FALSE])
    IN {r.calls[k] : k \in 1..Len(r.calls)}

\* The number of pairs of changes[name] equal to (ta, tb).
TimesRecorded(name, ta, tb) ==
    IF name \in DOMAIN cmp.changes
    THEN Cardinality({k \in 1..Len(cmp.changes[name]) :
                         cmp.changes[name][k] = <<ta, tb>>})
    ELSE 0

\* C27: at every moment of a comparison no list changes[name] holds two
\* pairs equal on both sides, and once every worker has left its loop every
\* pair that a walk has recorded is in its list exactly once.
C27_ChangesPairwiseDistinct ==
    phase \in {"comparing", "compared", "compare_panicked"}
    => /\ \A name \in DOMAIN cmp.changes :
             \A j, k \in 1..Len(cmp.changes[name]) :
                (/\ cmp.changes[name][j][1] = cmp.changes[name][k][1]
                 /\ cmp.changes[name][j][2] = cmp.changes[name][k][2]) => j = k
       /\ AllWalksEnded
          => \A e \in WalkedExports :
                \A c \in CallsOfWalk(e) : TimesRecorded(c[1], c[2], c[3]) = 1

\* Two workers have run the walks of two exports that both record the same
\* pair under one name, and the list of the name holds it once.
C27_Witness ==
    /\ AllWalksEnded
    /\ cmp.num_workers = 2
    /\ \A w \in 1..2 : cmp.workers[w].pc = "done"
    /\ \E e1, e2 \in WalkedExports :
          /\ e1 # e2
          /\ \E c \in CallsOfWalk(e1) \cap CallsOfWalk(e2) :
                Len(cmp.changes[c[1]]) = 1

(***************************************************************************)
(* C29, C30: the indices of Exports and the files of a load.               *)
(***************************************************************************)

\* Every file index stored in the exports of corp is a position of its files.
ExportIndicesInRange(corp) ==
    \A e \in DOMAIN corp.exports : corp.exports[e] < Len(corp.files)

\* C29: when a load has returned, every index stored in Exports is smaller
\* than the length of Files; and so are the indices of the two corpora that
\* compare_with works on.
C29_ExportIndicesInRange ==
    /\ LoadReturned => ExportIndicesInRange(corpus)
    /\ phase \in {"comparing", "compared", "compare_panicked"}
       => ExportIndicesInRange(cmp.a) /\ ExportIndicesInRange(cmp.b)

\* The load reads single-file inputs only, all readable, of distinct paths.
SingleFileInputs ==
    /\ \A k \in 1..Len(symfiles) : IsSingleFile(symfiles[k])
    /\ \A j, k \in 1..Len(symfiles) :
          symfiles[j].path = symfiles[k].path => j = k

\* The number of workers that are reading the file of the path.
WorkersReading(path) ==
    Cardinality({w \in 1..num_workers :
                    workers[w].pc \in {"parse", "export"} /\ workers[w].path = path})

\* The number of SymFiles of the path in files.
FilesOfPath(files, path) ==
    Cardinality({i \in 1..Len(files) : files[i].path = path})

\* C30: in a load of single-file inputs, each index below next_work_idx is
\* with exactly one worker or has given exactly one SymFile, and no index
\* from next_work_idx on is with any worker; when the load has returned,
\* Files holds exactly one SymFile for each input path and nothing else.
C30_EachFileLoadedOnce ==
    SingleFileInputs
    => /\ phase = "loading"
          => \A k \in 1..Len(symfiles) :
                WorkersReading(symfiles[k].path)
                + FilesOfPath(ctx.files, symfiles[k].path)
                   = IF k <= next_work_idx THEN 1 ELSE 0
       /\ LoadReturned
          => /\ Len(corpus.files) = Len(symfiles)
             /\ \A k \in 1..Len(symfiles) :
                   FilesOfPath(corpus.files, symfiles[k].path) = 1

\* A load of three files by two workers has returned, with the files in
\* another order than the input has them.
C30_Witness ==
    /\ SingleFileInputs
    /\ LoadSucceeded
    /\ Len(symfiles) = 3
    /\ num_workers = 2
    /\ corpus.files[1].path # symfiles[1].path

====
